---- MODULE Spec2Model ----
(***************************************************************************)
(* A model of fpath.py: paths as immutable tuples of an optional leading   *)
(* root followed by element strings, with the POSIX and Windows grammars,  *)
(* rendering, normalisation, comparison, concatenation and slicing.        *)
(*                                                                         *)
(* Text is modelled as a sequence of one-character strings, so that        *)
(* parsing and rendering are computed character by character as the code   *)
(* computes them.  A path member is a record [kind, a, b]: kind "elem"     *)
(* carries the element text in a; the root kinds carry their letter or     *)
(* host in a and the mountpoint in b.  A path value is [role, members].    *)
(***************************************************************************)
EXTENDS Integers, Sequences, FiniteSets, TLC

VARIABLES os, p, out

vars == <<os, p, out>>

(***************************************************************************)
(* Bounds of the model.                                                    *)
(***************************************************************************)
\* longest text handed to the parsers
MaxLen == 5
\* most segments after the root prefix of a text used as an operand
MaxSegs == 2
\* most members a path kept in the register may have
MaxMembers == 2
\* largest absolute value of a slice start or stop
MaxIndex == 3
\* largest absolute value of a slice step
MaxStep == 2
\* stat calls after which a Stats object is used no more
MaxCalls == 3
\* largest count a path is repeated by
MaxRepeat == 2
\* builds of its string after which an instance is used no more
MaxBuilds == 2

(***************************************************************************)
(* Characters and text.                                                    *)
(***************************************************************************)
SLASH == "/"
BACKSLASH == "\\"
DOT == "."
COLON == ":"

EmptyText == << >>

\* string.ascii_letters restricted to the letters the model draws text from
LowerLetters == << "a" >>

UpperLetters == << "A" >>

Letters == {LowerLetters[i] : i \in 1..Len(LowerLetters)}
             \cup {UpperLetters[i] : i \in 1..Len(UpperLetters)}

\* a letter outside ASCII, e with an acute accent, in its two cases
EACUTE == "e'"

CAPITAL_EACUTE == "E'"

\* unicode.isalpha() of a one-character string
isalpha(ch) == ch \in Letters \cup {EACUTE, CAPITAL_EACUTE}

\* str.lower() / str.upper() of one character
LowerChar(ch) ==
    IF \E i \in 1..Len(UpperLetters) : UpperLetters[i] = ch
    THEN LowerLetters[CHOOSE i \in 1..Len(UpperLetters) : UpperLetters[i] = ch]
    ELSE IF ch = CAPITAL_EACUTE THEN EACUTE
    ELSE ch

UpperChar(ch) ==
    IF \E i \in 1..Len(LowerLetters) : LowerLetters[i] = ch
    THEN UpperLetters[CHOOSE i \in 1..Len(LowerLetters) : LowerLetters[i] = ch]
    ELSE IF ch = EACUTE THEN CAPITAL_EACUTE
    ELSE ch

lower(s) == [i \in 1..Len(s) |-> LowerChar(s[i])]

upper(s) == [i \in 1..Len(s) |-> UpperChar(s[i])]

\* str.replace(old, new) for one-character old and new
replace(s, old, new) == [i \in 1..Len(s) |-> IF s[i] = old THEN new ELSE s[i]]

Min(a, b) == IF a < b THEN a ELSE b

Max(a, b) == IF a > b THEN a ELSE b

\* Python s[i:j] with 0-based, non-negative i and j (clamped to the length)
Slice(s, i, j) ==
    LET lo == Min(i, Len(s))
        hi == Min(j, Len(s))
    IN  IF hi <= lo THEN << >> ELSE SubSeq(s, lo + 1, hi)

\* Python s[i:]
From(s, i) == Slice(s, i, Len(s))

\* str.startswith(prefix)
startswith(s, prefix) ==
    /\ Len(prefix) <= Len(s)
    /\ SubSeq(s, 1, Len(prefix)) = prefix

\* str.endswith(suffix)
endswith(s, suffix) ==
    /\ Len(suffix) <= Len(s)
    /\ SubSeq(s, Len(s) - Len(suffix) + 1, Len(s)) = suffix

\* str.find(ch, start) for a one-character ch: 0-based index or -1
find(s, ch, start) ==
    IF \E i \in (start + 1)..Len(s) : s[i] = ch
    THEN (CHOOSE i \in (start + 1)..Len(s) :
              /\ s[i] = ch
              /\ \A j \in (start + 1)..(i - 1) : s[j] # ch) - 1
    ELSE -1

\* ch in s
contains(s, ch) == \E i \in 1..Len(s) : s[i] = ch

RECURSIVE split(_, _)
\* str.split(sep) for a one-character sep: "a//b" gives "a", "", "b"
split(s, sep) ==
    LET i == find(s, sep, 0)
    IN  IF i = -1 THEN << s >>
        ELSE << Slice(s, 0, i) >> \o split(From(s, i + 1), sep)

RECURSIVE join(_, _)
\* sep.join(parts), sep a text
join(sep, parts) ==
    IF Len(parts) = 0 THEN << >>
    ELSE IF Len(parts) = 1 THEN parts[1]
    ELSE parts[1] \o sep \o join(sep, Tail(parts))

\* str.lstrip(ch)
RECURSIVE lstrip(_, _)
lstrip(s, ch) ==
    IF Len(s) > 0 /\ s[1] = ch THEN lstrip(Tail(s), ch) ELSE s

\* the texts of length at most n over the alphabet
RECURSIVE TextsUpTo(_, _)
TextsUpTo(alphabet, n) ==
    IF n = 0 THEN { << >> }
    ELSE LET shorter == TextsUpTo(alphabet, n - 1)
         IN  shorter \cup {Append(t, ch) : t \in shorter, ch \in alphabet}

(***************************************************************************)
(* Exceptions and results.  An operation returns [err, val]: err is "none" *)
(* and val the value, or err names the exception raised and val is None.   *)
(***************************************************************************)
NoError == "none"
ValueError == "ValueError"
TypeError == "TypeError"
AttributeError == "AttributeError"

OSError == "OSError"

NotImplementedError == "NotImplementedError"

(***************************************************************************)
(* Path members: roots and elements.                                       *)
(***************************************************************************)
Elem(s) == [kind |-> "elem", a |-> s, b |-> EmptyText]

\* an item of an element list that is neither a string nor a root
Other == [kind |-> "other", a |-> EmptyText, b |-> EmptyText]

\* _PosixRoot(): the singleton Path.ROOT
PosixROOT == [kind |-> "PosixRoot", a |-> EmptyText, b |-> EmptyText]

\* _NTCurRootType(): the singleton NTPath.CURROOT
CURROOT == [kind |-> "NTCurRoot", a |-> EmptyText, b |-> EmptyText]

NoMember == [kind |-> "none", a |-> EmptyText, b |-> EmptyText]

\* a drive root that stores its letter as given
NTDrive_keep_case(letter) ==
    IF Len(letter) # 1 \/ ~isalpha(letter[1])
    THEN [err |-> ValueError, val |-> NoMember]
    ELSE [err |-> NoError,
          val |-> [kind |-> "NTDrive", a |-> letter, b |-> EmptyText]]

\* NTDrive.__init__: one alphabetic character, stored uppercase
NTDrive(letter) ==
    IF Len(letter) # 1 \/ ~isalpha(letter[1])
    THEN [err |-> ValueError, val |-> NoMember]
    ELSE [err |-> NoError,
          val |-> [kind |-> "NTDrive", a |-> upper(letter), b |-> EmptyText]]

\* NTUnrootedDrive.__init__: one letter of string.letters, stored lowercase
NTUnrootedDrive(letter) ==
    IF Len(letter) # 1 \/ letter[1] \notin Letters
    THEN [err |-> ValueError, val |-> NoMember]
    ELSE [err |-> NoError,
          val |-> [kind |-> "NTUnrootedDrive", a |-> lower(letter), b |-> EmptyText]]

\* NTUNCRoot.__init__: host and mountpoint stored lowercase
NTUNCRoot(host, mountpoint) ==
    [kind |-> "NTUNCRoot", a |-> lower(host), b |-> lower(mountpoint)]

PosixRootKinds == {"PosixRoot"}

NTRootKinds == {"NTCurRoot", "NTDrive", "NTUnrootedDrive", "NTUNCRoot"}

\* isinstance(m, cls._OSBaseRoot) for the path classes of grammar o
IsOSRoot(o, m) ==
    IF o = "posix" THEN m.kind \in PosixRootKinds ELSE m.kind \in NTRootKinds

\* isinstance(m, str)
IsStr(m) == m.kind = "elem"

\* the isabs attribute of a root
RootIsAbs(m) == m.kind \in {"PosixRoot", "NTDrive", "NTUNCRoot"}

\* __str__ of a root
RootStr(m) ==
    CASE m.kind = "PosixRoot" -> << SLASH >>
      [] m.kind = "NTCurRoot" -> << BACKSLASH >>
      [] m.kind = "NTDrive" -> m.a \o << COLON, BACKSLASH >>
      [] m.kind = "NTUnrootedDrive" -> m.a \o << COLON >>
      [] m.kind = "NTUNCRoot" ->
            << BACKSLASH, BACKSLASH >> \o m.a \o << BACKSLASH >> \o m.b \o << BACKSLASH >>
      [] OTHER -> EmptyText

\* the class constants _curdir, _pardir, _sep, _altsep
curdir == << DOT >>

pardir == << DOT, DOT >>

sep(o) == IF o = "posix" THEN SLASH ELSE BACKSLASH

\* _altsep is None on POSIX: no character is an alternate separator there
HasAltsep(o) == o = "nt"

altsep == SLASH

(***************************************************************************)
(* The two grammars.                                                       *)
(***************************************************************************)
RECURSIVE ParseElements(_)
\* the loop "for element in pathstr.split('/')" of both parsers, over the
\* segments: empty and '.' segments are skipped, every other one is yielded
ParseElements(segments) ==
    IF Len(segments) = 0 THEN << >>
    ELSE IF Head(segments) = EmptyText \/ Head(segments) = curdir
         THEN ParseElements(Tail(segments))
         ELSE << Elem(Head(segments)) >> \o ParseElements(Tail(segments))

Raise(e) == [err |-> e, val |-> << >>]

Members(ms) == [err |-> NoError, val |-> ms]

\* a POSIX parser that refuses every text opening with two slashes, three
\* or more included
PosixPath_parse_str_two_slashes(pathstr) ==
    IF startswith(pathstr, << SLASH >>)
    THEN IF startswith(pathstr, << SLASH, SLASH >>)
         THEN Raise(NotImplementedError)
         ELSE Members(<< PosixROOT >> \o ParseElements(split(pathstr, SLASH)))
    ELSE Members(ParseElements(split(pathstr, SLASH)))

\* PosixPath._parse_str, run to exhaustion as tuple.__new__ runs it
PosixPath_parse_str(pathstr) ==
    IF startswith(pathstr, << SLASH >>)
    THEN IF startswith(pathstr, << SLASH, SLASH >>)
            /\ ~startswith(pathstr, << SLASH, SLASH, SLASH >>)
         THEN Raise(NotImplementedError)
         ELSE Members(<< PosixROOT >> \o ParseElements(split(pathstr, SLASH)))
    ELSE Members(ParseElements(split(pathstr, SLASH)))

\* a UNC parser that takes the mountpoint right after the host's first slash
SkipSlashes_none(pathstr, index2) == index2

RECURSIVE SkipSlashes(_, _)
\* the loop "while pathstr[index2:index2+1] == '/': index2 += 1"
SkipSlashes(pathstr, index2) ==
    IF Slice(pathstr, index2, index2 + 1) = << SLASH >>
    THEN SkipSlashes(pathstr, index2 + 1)
    ELSE index2

\* the UNC branch of NTPath._parse_str, pathstr already starting with '//'
NTPath_parse_unc(pathstr) ==
    IF startswith(pathstr, << SLASH, SLASH, SLASH >>) THEN Raise(ValueError)
    ELSE LET index == find(pathstr, SLASH, 2)
         IN  IF index = -1 THEN Raise(ValueError)
             ELSE LET index2 == SkipSlashes(pathstr, index + 1)
                  IN  IF index2 = Len(pathstr) THEN Raise(ValueError)
                      ELSE LET f == find(pathstr, SLASH, index2)
                               index3 == IF f = -1 THEN Len(pathstr) ELSE f
                           IN  Members(
                                 << NTUNCRoot(Slice(pathstr, 2, index),
                                              Slice(pathstr, index2, index3)) >>
                                 \o ParseElements(split(From(pathstr, index3), SLASH)))

\* the drive branch of NTPath._parse_str, pathstr not starting with '/'
NTPath_parse_drive(pathstr) ==
    IF Slice(pathstr, 1, 2) = << COLON >>
    THEN IF Slice(pathstr, 2, 3) = << SLASH >>
         THEN LET d == NTDrive(Slice(pathstr, 0, 1))
              IN  IF d.err # NoError THEN Raise(d.err)
                  ELSE Members(<< d.val >>
                               \o ParseElements(split(From(pathstr, 3), SLASH)))
         ELSE LET d == NTUnrootedDrive(Slice(pathstr, 0, 1))
              IN  IF d.err # NoError THEN Raise(d.err)
                  ELSE Members(<< d.val >>
                               \o ParseElements(split(From(pathstr, 2), SLASH)))
    ELSE Members(ParseElements(split(pathstr, SLASH)))

\* NTPath._parse_str, run to exhaustion as tuple.__new__ runs it
NTPath_parse_str(text) ==
    LET pathstr == replace(text, BACKSLASH, SLASH)
    IN  IF startswith(pathstr, << SLASH >>)
        THEN IF startswith(pathstr, << SLASH, SLASH >>)
             THEN NTPath_parse_unc(pathstr)
             ELSE Members(<< CURROOT >> \o ParseElements(split(pathstr, SLASH)))
        ELSE NTPath_parse_drive(pathstr)

\* cls._parse_str of the path classes of grammar o
parse_str(o, text) ==
    IF o = "posix" THEN PosixPath_parse_str(text) ELSE NTPath_parse_str(text)


(***************************************************************************)
(* Path values.  The four roles are the classes Path, Dir, File and Link   *)
(* of the grammar; a value is its class's role and its tuple of members.   *)
(***************************************************************************)
Roles == {"Path", "Dir", "File", "Link"}

PathValue(role, members) == [role |-> role, members |-> members]

\* what an operation that raised leaves in place of a value
None == PathValue("none", << >>)

Ok(v) == [err |-> NoError, val |-> v]

Fail(e) == [err |-> e, val |-> None]

\* a validity test that forgets the alternate separator
InvalidElement_sep_only(o, element) ==
    \/ element = EmptyText
    \/ contains(element, sep(o))

\* the element test of _normalize_elements: empty, or holding a separator
InvalidElement(o, element) ==
    \/ element = EmptyText
    \/ contains(element, sep(o))
    \/ (HasAltsep(o) /\ contains(element, altsep))

RECURSIVE NormalizeFrom(_, _, _)
\* BasePath._normalize_elements over elements[i..], i the 0-based index of
\* the first of them: curdir strings are dropped, invalid strings raise
\* ValueError, a root is accepted at index 0 only, anything else raises
\* TypeError
NormalizeFrom(o, elements, i) ==
    IF Len(elements) = 0 THEN Members(<< >>)
    ELSE LET element == Head(elements)
             rest == NormalizeFrom(o, Tail(elements), i + 1)
         IN  IF IsStr(element)
             THEN IF element.a # curdir
                  THEN IF InvalidElement(o, element.a) THEN Raise(ValueError)
                       ELSE IF rest.err # NoError THEN rest
                       ELSE Members(<< element >> \o rest.val)
                  ELSE rest
             ELSE IF i = 0 /\ IsOSRoot(o, element)
                  THEN IF rest.err # NoError THEN rest
                       ELSE Members(<< element >> \o rest.val)
                  ELSE Raise(TypeError)

normalize_elements(o, elements) == NormalizeFrom(o, elements, 0)

\* The arguments BasePath.__new__ distinguishes.
ArgNone == [t |-> "none", path |-> None, text |-> EmptyText, items |-> << >>]

ArgPath(v) == [t |-> "path", path |-> v, text |-> EmptyText, items |-> << >>]

ArgStr(s) == [t |-> "str", path |-> None, text |-> s, items |-> << >>]

ArgList(items) == [t |-> "list", path |-> None, text |-> EmptyText, items |-> items]

ArgRoot(root) == [t |-> "root", path |-> None, text |-> EmptyText, items |-> << root >>]

\* the instance of the role made of normalized members r, or r's error
Made(role, r) == IF r.err # NoError THEN Fail(r.err) ELSE Ok(PathValue(role, r.val))

\* BasePath.__new__(cls, arg), cls the class of grammar o with the role
new(o, role, arg) ==
    CASE arg.t = "none" -> Ok(PathValue(role, << >>))
      [] arg.t = "path" -> Ok(PathValue(role, arg.path.members))
      [] arg.t = "str" -> Made(role, parse_str(o, arg.text))
      [] arg.t = "root" /\ IsOSRoot(o, arg.items[1]) -> Ok(PathValue(role, arg.items))
      [] arg.t = "root" /\ ~IsOSRoot(o, arg.items[1]) -> Fail(TypeError)
      [] OTHER -> Made(role, normalize_elements(o, arg.items))

\* the texts of the members after the root
ElementTexts(members) == [i \in 1..Len(members) |-> members[i].a]

\* a _build_str that joins the root like any other member
build_str_joined(o, v) ==
    IF Len(v.members) = 0 THEN curdir
    ELSE IF IsOSRoot(o, v.members[1])
    THEN join(<< sep(o) >>, << RootStr(v.members[1]) >> \o ElementTexts(Tail(v.members)))
    ELSE join(<< sep(o) >>, ElementTexts(v.members))

\* BasePath._build_str
build_str(o, v) ==
    IF Len(v.members) = 0 THEN curdir
    ELSE IF IsOSRoot(o, v.members[1])
    THEN RootStr(v.members[1]) \o join(<< sep(o) >>, ElementTexts(Tail(v.members)))
    ELSE join(<< sep(o) >>, ElementTexts(v.members))

\* BasePath.isabs
isabs(o, v) ==
    /\ Len(v.members) > 0
    /\ IsOSRoot(o, v.members[1])
    /\ RootIsAbs(v.members[1])

\* an isrel that is the negation of isabs
isrel_not_isabs(o, v) == ~isabs(o, v)

\* BasePath.isrel
isrel(o, v) == Len(v.members) = 0 \/ ~IsOSRoot(o, v.members[1])


(***************************************************************************)
(* os.path.normcase and os.path.normpath, the library calls of             *)
(* BasePath.norm: posixpath on POSIX, ntpath on Windows.                   *)
(***************************************************************************)
RECURSIVE PosixCollapse(_, _, _)
\* the loop of posixpath.normpath over the remaining components
PosixCollapse(comps, new_comps, initial_slashes) ==
    IF Len(comps) = 0 THEN new_comps
    ELSE LET comp == Head(comps)
         IN  IF comp = EmptyText \/ comp = curdir
             THEN PosixCollapse(Tail(comps), new_comps, initial_slashes)
             ELSE IF \/ comp # pardir
                     \/ (initial_slashes = 0 /\ Len(new_comps) = 0)
                     \/ (Len(new_comps) > 0 /\ new_comps[Len(new_comps)] = pardir)
             THEN PosixCollapse(Tail(comps), Append(new_comps, comp), initial_slashes)
             ELSE IF Len(new_comps) > 0
             THEN PosixCollapse(Tail(comps), SubSeq(new_comps, 1, Len(new_comps) - 1),
                                initial_slashes)
             ELSE PosixCollapse(Tail(comps), new_comps, initial_slashes)

\* posixpath.normpath
posix_normpath(path) ==
    IF path = EmptyText THEN curdir
    ELSE LET initial_slashes ==
                 IF ~startswith(path, << SLASH >>) THEN 0
                 ELSE IF startswith(path, << SLASH, SLASH >>)
                         /\ ~startswith(path, << SLASH, SLASH, SLASH >>)
                 THEN 2 ELSE 1
             comps == PosixCollapse(split(path, SLASH), << >>, initial_slashes)
             joined == [i \in 1..initial_slashes |-> SLASH] \o join(<< SLASH >>, comps)
         IN  IF joined = EmptyText THEN curdir ELSE joined

\* posixpath.normcase
posix_normcase(s) == s

\* ntpath.normcase
nt_normcase(s) == lower(replace(s, SLASH, BACKSLASH))

\* ntpath.splitdrive of a path whose slashes are already backslashes:
\* <<drive, rest>>, the drive a letter and colon or a UNC host and mount
nt_splitdrive(pth) ==
    IF Len(pth) > 1
    THEN IF Slice(pth, 0, 2) = << BACKSLASH, BACKSLASH >>
            /\ Slice(pth, 2, 3) # << BACKSLASH >>
         THEN LET index == find(pth, BACKSLASH, 2)
              IN  IF index = -1 THEN << EmptyText, pth >>
                  ELSE LET index2 == find(pth, BACKSLASH, index + 1)
                       IN  IF index2 = index + 1 THEN << EmptyText, pth >>
                           ELSE IF index2 = -1 THEN << pth, EmptyText >>
                           ELSE << Slice(pth, 0, index2), From(pth, index2) >>
         ELSE IF pth[2] = COLON THEN << Slice(pth, 0, 2), From(pth, 2) >>
         ELSE << EmptyText, pth >>
    ELSE << EmptyText, pth >>

RECURSIVE NTCollapse(_, _, _)
\* the loop "while i < len(comps)" of ntpath.normpath, i 0-based
NTCollapse(comps, i, prefix) ==
    IF i >= Len(comps) THEN comps
    ELSE LET comp == comps[i + 1]
             without == SubSeq(comps, 1, i) \o SubSeq(comps, i + 2, Len(comps))
         IN  IF comp = EmptyText \/ comp = curdir
             THEN NTCollapse(without, i, prefix)
             ELSE IF comp = pardir
             THEN IF i > 0 /\ comps[i] # pardir
                  THEN NTCollapse(SubSeq(comps, 1, i - 1) \o SubSeq(comps, i + 2, Len(comps)),
                                  i - 1, prefix)
                  ELSE IF i = 0 /\ endswith(prefix, << BACKSLASH >>)
                  THEN NTCollapse(without, i, prefix)
                  ELSE NTCollapse(comps, i + 1, prefix)
             ELSE NTCollapse(comps, i + 1, prefix)

\* the leading backslashes of a text
LeadingBackslashes(s) == SubSeq(s, 1, Len(s) - Len(lstrip(s, BACKSLASH)))

\* ntpath.normpath
nt_normpath(text) ==
    IF \/ startswith(text, << BACKSLASH, BACKSLASH, DOT, BACKSLASH >>)
       \/ startswith(text, << BACKSLASH, BACKSLASH, "?", BACKSLASH >>)
    THEN text
    ELSE LET path == replace(text, SLASH, BACKSLASH)
             sd == nt_splitdrive(path)
             prefix == IF sd[1] = EmptyText
                       THEN LeadingBackslashes(sd[2])
                       ELSE IF startswith(sd[2], << BACKSLASH >>)
                       THEN sd[1] \o << BACKSLASH >>
                       ELSE sd[1]
             rest == lstrip(sd[2], BACKSLASH)
             comps == NTCollapse(split(rest, BACKSLASH), 0, prefix)
         IN  IF prefix = EmptyText /\ Len(comps) = 0 THEN curdir
             ELSE prefix \o join(<< BACKSLASH >>, comps)

\* os.path.normpath(os.path.normcase(s)), the tail of BasePath.norm
normstr(o, s) ==
    IF o = "posix" THEN posix_normpath(posix_normcase(s))
    ELSE nt_normpath(nt_normcase(s))

\* BasePath.norm(False, False, False): render, fold case, collapse, re-parse
\* into the same class
norm(o, v) == new(o, v.role, ArgStr(normstr(o, build_str(o, v))))

(***************************************************************************)
(* Comparison and hashing.                                                 *)
(***************************************************************************)
\* == of two roots, or of two strings: _BaseRoot.__cmp__ compares two roots
\* by their strings
MemberEq(m1, m2) ==
    IF IsStr(m1) /\ IsStr(m2) THEN m1.a = m2.a
    ELSE IF ~IsStr(m1) /\ ~IsStr(m2) THEN RootStr(m1) = RootStr(m2)
    ELSE FALSE

\* ord() of the characters of the model's alphabets
Ord(ch) ==
    CASE ch = SLASH -> 47
      [] ch = BACKSLASH -> 92
      [] ch = DOT -> 46
      [] ch = COLON -> 58
      [] ch = "A" -> 65
      [] ch = "a" -> 97
      [] OTHER -> 63

\* cmp(a, b) of two strings: the first position where they differ decides,
\* then the lengths
StrCmp(a, b) ==
    LET m == IF Len(a) < Len(b) THEN Len(a) ELSE Len(b)
        d == {i \in 1..m : Ord(a[i]) # Ord(b[i])}
    IN  IF d = {}
        THEN (IF Len(a) < Len(b) THEN -1 ELSE IF Len(a) > Len(b) THEN 1 ELSE 0)
        ELSE LET i == CHOOSE i \in d : \A j \in d : i <= j
             IN  IF Ord(a[i]) < Ord(b[i]) THEN -1 ELSE 1

\* the types of the objects a root is compared with
ObjectTypes == {"str", "unicode", "root", "object"}

\* _BaseRoot.__cmp__(self, other), other of the given type: [err, val].
\* The test is isinstance(other, str), which a unicode string fails.
BaseRoot_cmp(self, type, other) ==
    IF type = "str" THEN [err |-> NoError, val |-> -1]
    ELSE IF type = "root"
    THEN [err |-> NoError, val |-> StrCmp(RootStr(self), RootStr(other))]
    ELSE [err |-> TypeError, val |-> 0]

\* cmp of two items of normalized paths.  norm parses unicode(self), so the
\* elements of a normalized path are unicode strings; an item pair with one
\* root is compared by the root's __cmp__.
ItemCmp(m1, m2) ==
    IF IsStr(m1) /\ IsStr(m2) THEN [err |-> NoError, val |-> StrCmp(m1.a, m2.a)]
    ELSE IF ~IsStr(m1) /\ ~IsStr(m2) THEN BaseRoot_cmp(m1, "root", m2)
    ELSE IF ~IsStr(m1) THEN BaseRoot_cmp(m1, "unicode", m2)
    ELSE LET c == BaseRoot_cmp(m2, "unicode", m1)
         IN  [err |-> c.err, val |-> -c.val]

\* the comparison of two tuples: the items are compared in order up to the
\* first pair that differs, then the lengths; [err, val] with val the sign
TupleCmp(t1, t2) ==
    LET m == IF Len(t1) < Len(t2) THEN Len(t1) ELSE Len(t2)
        c == [i \in 1..m |-> ItemCmp(t1[i], t2[i])]
        d == {i \in 1..m : c[i].err # NoError \/ c[i].val # 0}
    IN  IF d = {}
        THEN [err |-> NoError,
              val |-> IF Len(t1) < Len(t2) THEN -1
                      ELSE IF Len(t1) > Len(t2) THEN 1 ELSE 0]
        ELSE c[CHOOSE i \in d : \A j \in d : i <= j]

\* BasePath.__getnorm: the other operand as a plain path, normalised
getnorm(o, other) ==
    LET made == new(o, "Path", ArgPath(other))
    IN  norm(o, made.val)

\* the tuple comparison of two normalized forms n1 and n2, each [err, val]
CmpNorms(n1, n2) ==
    IF n1.err # NoError THEN [err |-> n1.err, val |-> 0]
    ELSE IF n2.err # NoError THEN [err |-> n2.err, val |-> 0]
    ELSE TupleCmp(n1.val.members, n2.val.members)

\* the tuple comparison of the two normalized forms that __eq__, __lt__ and
\* __gt__ share
NormCmp(o, v, other) == CmpNorms(norm(o, v), getnorm(o, other))

\* the truth value a rich comparison makes of the comparison c: its sign is s
CmpIs(c, s) == [err |-> c.err, val |-> c.err = NoError /\ c.val = s]

\* BasePath.__eq__: [err, val] with val the truth value
eq(o, v, other) == CmpIs(NormCmp(o, v, other), 0)

\* BasePath.__lt__
lt(o, v, other) == CmpIs(NormCmp(o, v, other), -1)

\* BasePath.__gt__
gt(o, v, other) == CmpIs(NormCmp(o, v, other), 1)

\* Hashes are computed at 15 bits so that every product stays a 32-bit
\* integer; sums, products and xor commute with the reduction.  The
\* multiplier is 1000003 at that width.
HashWidth == 2 ^ 15

HashMult == 1000003 % HashWidth

RECURSIVE Xor(_, _)
\* bitwise exclusive or of two naturals
Xor(x, y) ==
    IF x = 0 THEN y
    ELSE IF y = 0 THEN x
    ELSE (((x % 2) + (y % 2)) % 2) + 2 * Xor(x \div 2, y \div 2)

RECURSIVE StrHashLoop(_, _)
StrHashLoop(s, x) ==
    IF Len(s) = 0 THEN x
    ELSE StrHashLoop(Tail(s), Xor((HashMult * x) % HashWidth, Ord(Head(s))))

\* hash() of a string
StrHash(s) ==
    IF Len(s) = 0 THEN 0
    ELSE Xor(StrHashLoop(s, (Ord(s[1]) * 128) % HashWidth), Len(s))

\* hash() of a tuple item: _BaseRoot.__hash__ hashes the root's string
MemberHash(m) == IF IsStr(m) THEN StrHash(m.a) ELSE StrHash(RootStr(m))

RECURSIVE TupleHashLoop(_, _, _)
TupleHashLoop(t, x, mult) ==
    IF Len(t) = 0 THEN (x + 97531) % HashWidth
    ELSE TupleHashLoop(Tail(t),
                       (Xor(x, MemberHash(Head(t))) * mult) % HashWidth,
                       (mult + 82520 + 2 * (Len(t) - 1)) % HashWidth)

\* BasePath.__hash__: tuple.__hash__ of the members as they are stored
hash(v) == TupleHashLoop(v.members, 3430008 % HashWidth, HashMult)

(***************************************************************************)
(* Concatenation.                                                          *)
(***************************************************************************)
\* an __add__ that gives the result the class of the left operand
BasePath_add_left_class(o, self, other) ==
    LET made == IF other.t = "path" THEN Ok(other.path) ELSE new(o, "Path", other)
    IN  IF made.err # NoError THEN Fail(made.err)
        ELSE IF ~isrel(o, made.val) THEN Fail(ValueError)
        ELSE new(o, self.role, ArgList(self.members \o made.val.members))

\* BasePath.__add__(self, other): other an argument of __new__
BasePath_add(o, self, other) ==
    LET cls == IF other.t = "path" THEN other.path.role ELSE "Path"
        made == IF other.t = "path" THEN Ok(other.path) ELSE new(o, "Path", other)
    IN  IF made.err # NoError THEN Fail(made.err)
        ELSE IF ~isrel(o, made.val) THEN Fail(ValueError)
        ELSE new(o, cls, ArgList(self.members \o made.val.members))

\* a File class that does not override __add__
BaseFile_add_inherited(o, self, other) == BasePath_add(o, self, other)

\* BaseFile.__add__
BaseFile_add(o, self, other) == Fail(ValueError)

\* BaseLink.__add__
BaseLink_add(o, self, other) == Fail(ValueError)

\* self + other, dispatched on the class of self
add(o, self, other) ==
    CASE self.role = "File" -> BaseFile_add(o, self, other)
      [] self.role = "Link" -> BaseLink_add(o, self, other)
      [] OTHER -> BasePath_add(o, self, other)

\* BasePath.__radd__(self, other): other + self for a string or list other
radd(o, self, other) ==
    IF ~isrel(o, self) THEN Fail(ValueError)
    ELSE LET made == IF other.t = "path" THEN Ok(other.path)
                     ELSE new(o, self.role, other)
         IN  IF made.err # NoError THEN Fail(made.err)
             ELSE new(o, self.role, ArgList(made.val.members \o self.members))

(***************************************************************************)
(* Slicing.  A slice bound is [none, v]: absent, or the integer v.         *)
(***************************************************************************)
Absent == [none |-> TRUE, v |-> 0]

Given(n) == [none |-> FALSE, v |-> n]

\* Python a % b, whose result takes the sign of b
PyMod(a, b) == IF b > 0 THEN a % b ELSE -((-a) % (-b))

\* the clamping of one bound by slice.indices(len)
AdjustIndex(x, length, step) ==
    IF x < 0
    THEN IF x + length < 0 THEN (IF step < 0 THEN -1 ELSE 0) ELSE x + length
    ELSE IF x >= length THEN (IF step < 0 THEN length - 1 ELSE length)
    ELSE x

\* slice(start, stop, step).indices(len): <<start, stop, step>>
slice_indices(start, stop, step, length) ==
    LET st == IF step.none THEN 1 ELSE step.v
        s0 == IF start.none THEN (IF st < 0 THEN length - 1 ELSE 0)
              ELSE AdjustIndex(start.v, length, st)
        s1 == IF stop.none THEN (IF st < 0 THEN -1 ELSE length)
              ELSE AdjustIndex(stop.v, length, st)
    IN  << s0, s1, st >>

RECURSIVE SliceIndexes(_, _, _)
\* the 0-based positions tuple.__getitem__ takes for the adjusted slice
SliceIndexes(i, stop, step) ==
    IF (step > 0 /\ i >= stop) \/ (step < 0 /\ i <= stop) THEN << >>
    ELSE << i >> \o SliceIndexes(i + step, stop, step)

\* tuple.__getitem__(self, slice)
tuple_getitem(members, start, stop, step) ==
    LET ix == slice_indices(start, stop, step, Len(members))
        pos == SliceIndexes(ix[1], ix[2], ix[3])
    IN  [k \in 1..Len(pos) |-> members[pos[k] + 1]]

\* BasePath._getatend
getatend(o, self, tpl) == new(o, self.role, ArgList(tpl))

\* a _getnotend that wraps the slice of the tuple as it is
getnotend_unchecked(o, self, tpl) ==
    Ok(PathValue(CASE self.role = "File" -> "Dir"
                   [] self.role = "Link" -> "Dir"
                   [] self.role = "Dir" -> self.role
                   [] OTHER -> "Path",
                 tpl))

\* _getnotend of BasePath, BaseFile, BaseDir and BaseLink
getnotend(o, self, tpl) ==
    new(o, CASE self.role = "File" -> "Dir"
             [] self.role = "Link" -> "Dir"
             [] self.role = "Dir" -> self.role
             [] OTHER -> "Path",
        ArgList(tpl))

\* the position one past the last item taken, as __getitem__ computes it
SliceEnd(start, stop, step) == stop - PyMod(stop + step - 1 - start, step)

\* BasePath.__getitem__(self, slice(start, stop, step))
getitem(o, self, start, stop, step) ==
    LET tupslice == tuple_getitem(self.members, start, stop, step)
        ix == slice_indices(start, stop, step, Len(self.members))
    IN  IF SliceEnd(ix[1], ix[2], ix[3]) >= Len(self.members)
        THEN getatend(o, self, tupslice)
        ELSE getnotend(o, self, tupslice)


(***************************************************************************)
(* Inputs.  The parsers are given every text of at most MaxLen characters  *)
(* over the alphabet of the grammar; the operands of the algebra are texts *)
(* made of a root prefix and at most MaxSegs segments.                     *)
(***************************************************************************)
Grammars == {"posix", "nt"}

Alphabet(o) ==
    IF o = "posix" THEN {SLASH, DOT, "a"}
    ELSE {SLASH, BACKSLASH, DOT, COLON, "a", "A"}

ParseTexts(o) == TextsUpTo(Alphabet(o), MaxLen)

\* the two-separator openings of a UNC text
UNCLeads == {<< BACKSLASH, BACKSLASH >>, << SLASH, BACKSLASH >>}

RECURSIVE SeqsUpTo(_, _)
\* the sequences of at most n items of S
SeqsUpTo(S, n) ==
    IF n = 0 THEN { << >> }
    ELSE LET shorter == SeqsUpTo(S, n - 1)
         IN  shorter \cup {Append(q, x) : q \in shorter, x \in S}

SegTokens == {<< "a" >>, pardir, curdir}

Prefixes(o) ==
    IF o = "posix" THEN {EmptyText, << SLASH >>, << SLASH, SLASH >>}
    ELSE {EmptyText, << SLASH >>, << "a", COLON >>, << "A", COLON, SLASH >>,
          << SLASH, SLASH, "a", SLASH, "A", SLASH >>, << DOT, COLON >>}

OperandTexts(o) ==
    {pre \o join(<< SLASH >>, segs) :
        pre \in Prefixes(o), segs \in SeqsUpTo(SegTokens, MaxSegs)}

\* the path values the operand texts construct, in every role
OperandPaths(o) ==
    {new(o, role, ArgStr(t)).val :
        role \in Roles, t \in {u \in OperandTexts(o) : parse_str(o, u).err = NoError}}

\* a root of the grammar, for element lists
SomeRoot(o) == IF o = "posix" THEN PosixROOT ELSE CURROOT

OperandLists(o) ==
    SeqsUpTo({Elem(<< "a" >>), Elem(pardir), Elem(curdir), SomeRoot(o)}, MaxSegs)

Bounds == {Absent} \cup {Given(n) : n \in (-MaxIndex)..MaxIndex}

Steps == {Absent} \cup {Given(n) : n \in ((-MaxStep)..MaxStep) \ {0}}

(***************************************************************************)
(* The state: the grammar in force (os.name), the path value last made,    *)
(* and the record of the last operation with its operands and outcome.     *)
(***************************************************************************)
NoResult == Fail(NoError)

NoTruth == [err |-> NoError, val |-> FALSE]

Blank ==
    [op |-> "idle", self |-> None, role |-> "none", role2 |-> "none",
     arg |-> ArgNone, text |-> EmptyText,
     start |-> Absent, stop |-> Absent, step |-> Absent,
     res |-> NoResult, made |-> NoResult, re |-> NoResult, str |-> EmptyText,
     eq |-> NoTruth, eq2 |-> NoTruth, eq3 |-> NoTruth, h1 |-> 0, h2 |-> 0]

\* the register after an operation: its result when it made a value that
\* fits the bound, else what it held
Keep(r) ==
    IF r.err = NoError /\ Len(r.val.members) <= MaxMembers THEN r.val ELSE p

Init ==
    /\ os \in Grammars
    /\ p = PathValue("Path", << >>)
    /\ out = Blank

\* Path(text), Dir(text), File(text), Link(text)
New(role, t) ==
    LET r == new(os, role, ArgStr(t))
    IN  /\ out' = [Blank EXCEPT !.op = "new", !.role = role, !.arg = ArgStr(t),
                                !.text = t, !.res = r]
        /\ p' = Keep(r)
        /\ UNCHANGED os

\* Path(root) for a root of the grammar
NewRoot(role, root) ==
    LET r == new(os, role, ArgRoot(root))
    IN  /\ out' = [Blank EXCEPT !.op = "newroot", !.role = role,
                                !.arg = ArgRoot(root), !.res = r]
        /\ p' = Keep(r)
        /\ UNCHANGED os

\* role(p): the register's value converted to another role
Convert(role) ==
    LET r == new(os, role, ArgPath(p))
    IN  /\ out' = [Blank EXCEPT !.op = "convert", !.self = p, !.role = role,
                                !.arg = ArgPath(p), !.res = r]
        /\ p' = Keep(r)
        /\ UNCHANGED os

\* the right operand of a concatenation as a path value, when it is or
\* converts to one
Converted(o, cls, arg) ==
    IF arg.t = "path" THEN Ok(arg.path) ELSE new(o, cls, arg)

\* p + arg
Add(arg) ==
    LET r == add(os, p, arg)
    IN  /\ out' = [Blank EXCEPT !.op = "add", !.self = p, !.arg = arg,
                                !.made = Converted(os, "Path", arg), !.res = r]
        /\ p' = Keep(r)
        /\ UNCHANGED os

\* arg + p for a string or a list arg
Radd(arg) ==
    LET r == radd(os, p, arg)
    IN  /\ out' = [Blank EXCEPT !.op = "radd", !.self = p, !.arg = arg,
                                !.made = Converted(os, p.role, arg), !.res = r]
        /\ p' = Keep(r)
        /\ UNCHANGED os

Roots(o) ==
    IF o = "posix" THEN {PosixROOT}
    ELSE {CURROOT, NTDrive(<< "a" >>).val, NTUnrootedDrive(<< "A" >>).val,
          NTUNCRoot(<< "a" >>, << "A" >>)}

AddArgs(o) ==
    {ArgStr(t) : t \in OperandTexts(o)}
        \cup {ArgPath(v) : v \in OperandPaths(o)}
        \cup {ArgList(items) : items \in OperandLists(o)}

RaddArgs(o) ==
    {ArgStr(t) : t \in OperandTexts(o)}
        \cup {ArgList(items) : items \in OperandLists(o)}

\* no call is in progress: the next operation may be applied
Idle == out.op = "idle"

\* the caller takes the outcome of the last operation
Return ==
    /\ ~Idle
    /\ out' = Blank
    /\ UNCHANGED << os, p >>

Next ==
    \/ Idle /\ \E role \in Roles, t \in OperandTexts(os) : New(role, t)
    \/ Idle /\ \E role \in Roles, root \in Roots(os) : NewRoot(role, root)
    \/ Idle /\ \E role \in Roles : Convert(role)
    \/ Idle /\ \E arg \in AddArgs(os) : Add(arg)
    \/ Idle /\ \E arg \in RaddArgs(os) : Radd(arg)
    \/ Return

Spec == Init /\ [][Next]_vars


(***************************************************************************)
(* Claims about concatenation.                                             *)
(***************************************************************************)
\* the first member of the value is a root
FirstIsRoot(v) == Len(v.members) > 0 /\ v.members[1].kind # "elem"

\* C1 as stated: for a left operand of any role and a right operand that is
\* or converts to a path value, a + b raises ValueError exactly when the
\* first member of b is a root, and succeeds otherwise.
C1_AddFailsIffNotRelative ==
    (out.op = "add" /\ out.made.err = NoError) =>
        /\ (out.res.err = ValueError) <=> FirstIsRoot(out.made.val)
        /\ out.res.err \in {NoError, ValueError}

\* C1 amended: for a plain or directory left operand and a right operand
\* that is or converts to a path value, a + b raises ValueError exactly when
\* the first member of b is a root and succeeds otherwise; for a file or
\* link left operand a + b always raises ValueError.
C1_AddFailure ==
    out.op = "add" =>
        IF out.self.role \in {"File", "Link"}
        THEN out.res.err = ValueError
        ELSE out.made.err = NoError =>
                /\ (out.res.err = ValueError) <=> FirstIsRoot(out.made.val)
                /\ out.res.err \in {NoError, ValueError}

\* a directory was given a text that parses to a rooted path, and refused it
C1_Witness ==
    /\ out.op = "add"
    /\ out.self.role = "Dir"
    /\ out.arg.t = "str"
    /\ out.made.err = NoError
    /\ FirstIsRoot(out.made.val)
    /\ out.res.err = ValueError

\* C2: when a + b succeeds the result's members are a's followed by b's,
\* unchanged, and its role is b's role for a path value b and plain for a
\* text or list b; when b + a is evaluated by a's __radd__ the result's
\* members are b's followed by a's and its role is a's.
C2_AddResult ==
    /\ (out.op = "add" /\ out.res.err = NoError) =>
          /\ out.res.val.members = out.self.members \o out.made.val.members
          /\ out.res.val.role =
                (IF out.arg.t = "path" THEN out.arg.path.role ELSE "Path")
    /\ (out.op = "radd" /\ out.res.err = NoError) =>
          /\ out.res.val.members = out.made.val.members \o out.self.members
          /\ out.res.val.role = out.self.role

\* a rooted directory took a file-role operand ending in '..' and kept it
C2_Witness ==
    /\ out.op = "add"
    /\ out.res.err = NoError
    /\ out.self.role = "Dir"
    /\ FirstIsRoot(out.self)
    /\ Len(out.self.members) > 1
    /\ out.arg.t = "path"
    /\ out.arg.path.role = "File"
    /\ Len(out.made.val.members) > 0
    /\ out.made.val.members[1] = Elem(pardir)
    /\ out.res.val.role = "File"


(***************************************************************************)
(* Comparison: Spec with == and hash() of the register against a path.     *)
(***************************************************************************)
\* p == other and the two hashes, other a path value
Compare(other) ==
    /\ out' = [Blank EXCEPT !.op = "cmp", !.self = p, !.arg = ArgPath(other),
                            !.eq = eq(os, p, other),
                            !.h1 = hash(p), !.h2 = hash(other)]
    /\ UNCHANGED << os, p >>

NextCmp ==
    \/ Idle /\ \E role \in Roles, t \in OperandTexts(os) : New(role, t)
    \/ Idle /\ \E role \in Roles, root \in Roots(os) : NewRoot(role, root)
    \/ Idle /\ \E other \in OperandPaths(os) : Compare(other)
    \/ Return

SpecCmp == Init /\ [][NextCmp]_vars

(***************************************************************************)
(* Roles: one text constructed in two roles, and one converted to the      *)
(* other.                                                                  *)
(***************************************************************************)
\* R1(t), R2(t), R1(R2(t)) and their comparisons, for a text both accept
Reconstruct(R1, R2, t) ==
    LET v1 == new(os, R1, ArgStr(t))
        v2 == new(os, R2, ArgStr(t))
        c == new(os, R1, ArgPath(v2.val))
    IN  /\ v1.err = NoError
        /\ out' = [Blank EXCEPT !.op = "roles", !.role = R1, !.role2 = R2,
                                !.text = t, !.res = v1, !.made = v2, !.re = c,
                                !.eq = eq(os, v1.val, v2.val),
                                !.eq2 = eq(os, c.val, v1.val),
                                !.eq3 = eq(os, c.val, v2.val)]
        /\ UNCHANGED << os, p >>

\* the texts given to every pair of roles
RoleTexts(o) == TextsUpTo(Alphabet(o), MaxLen - 1)

NextRoles ==
    \/ Idle /\ \E R1 \in Roles, R2 \in Roles, t \in RoleTexts(os) : Reconstruct(R1, R2, t)
    \/ Return

SpecRoles == Init /\ [][NextRoles]_vars

(***************************************************************************)
(* Slicing: Spec with p[start:stop:step].                                  *)
(***************************************************************************)
GetItem(start, stop, step) ==
    LET r == getitem(os, p, start, stop, step)
    IN  /\ out' = [Blank EXCEPT !.op = "slice", !.self = p, !.start = start,
                                !.stop = stop, !.step = step, !.res = r]
        /\ p' = Keep(r)
        /\ UNCHANGED os

NextSlice ==
    \/ Idle /\ \E role \in Roles, t \in OperandTexts(os) : New(role, t)
    \/ Idle /\ \E role \in Roles, root \in Roots(os) : NewRoot(role, root)
    \/ Idle /\ \E start \in Bounds, stop \in Bounds, step \in Steps :
                  GetItem(start, stop, step)
    \/ Return

SpecSlice == Init /\ [][NextSlice]_vars

(***************************************************************************)
(* Parsing and rendering: every text of the grammar's alphabet is parsed,  *)
(* rendered and parsed again; every text is tried as a sole element.       *)
(***************************************************************************)
\* Path(t), str() of the result and Path() of that string
Parse(t) ==
    LET r == new(os, "Path", ArgStr(t))
        rendered == IF r.err = NoError THEN build_str(os, r.val) ELSE EmptyText
    IN  /\ out' = [Blank EXCEPT !.op = "parse", !.role = "Path", !.text = t,
                                !.arg = ArgStr(t), !.res = r, !.str = rendered,
                                !.re = IF r.err = NoError
                                       THEN new(os, "Path", ArgStr(rendered))
                                       ELSE NoResult]
        /\ UNCHANGED << os, p >>

\* Path([e]), str() of the result, Path() of that string and their ==
NewElement(e) ==
    LET r == new(os, "Path", ArgList(<< Elem(e) >>))
        rendered == IF r.err = NoError THEN build_str(os, r.val) ELSE EmptyText
        again == IF r.err = NoError THEN new(os, "Path", ArgStr(rendered))
                 ELSE NoResult
    IN  /\ out' = [Blank EXCEPT !.op = "element", !.role = "Path", !.text = e,
                                !.arg = ArgList(<< Elem(e) >>), !.res = r,
                                !.str = rendered, !.re = again,
                                !.eq = IF r.err = NoError /\ again.err = NoError
                                       THEN eq(os, again.val, r.val)
                                       ELSE NoTruth]
        /\ UNCHANGED << os, p >>

\* the openings put before a text to reach the double-separator forms
Leads(o) == IF o = "posix" THEN {<< SLASH, SLASH >>} ELSE UNCLeads

NextParse ==
    \/ Idle /\ \E t \in ParseTexts(os) : Parse(t)
    \/ Idle /\ \E lead \in Leads(os), t \in ParseTexts(os) : Parse(lead \o t)
    \/ Idle /\ \E e \in ParseTexts(os) : NewElement(e)
    \/ Return

SpecParse == Init /\ [][NextParse]_vars


(***************************************************************************)
(* Properties of comparison, roles and slicing.                            *)
(***************************************************************************)
\* C3: whenever two path values compare equal their hashes are equal.  The
\* hashes are those of the stored members reduced modulo HashWidth, so
\* hashes that differ here differ at full width.
C3_HashConsistent ==
    (out.op = "cmp" /\ out.eq.err = NoError /\ out.eq.val) => out.h1 = out.h2

\* C4: for a text s that parses and roles R1, R2: R1(s) == R2(s), and
\* R1(R2(s)) is made, has the members of R2(s) and compares equal to R1(s)
\* and to R2(s).
C4_RoleNotStructural ==
    out.op = "roles" =>
        /\ out.eq = [err |-> NoError, val |-> TRUE]
        /\ out.re.err = NoError
        /\ out.re.val.members = out.made.val.members
        /\ out.re.val.role = out.role
        /\ out.eq2 = [err |-> NoError, val |-> TRUE]
        /\ out.eq3 = [err |-> NoError, val |-> TRUE]

\* the slice takes the last position of a path of n members
IncludesFinal(n, start, stop, step) ==
    LET ix == slice_indices(start, stop, step, n)
        pos == SliceIndexes(ix[1], ix[2], ix[3])
    IN  \E k \in 1..Len(pos) : pos[k] = n - 1

\* C5: a slice p[start:stop:step] that is made has p's role when it takes
\* the last position of p; otherwise it is plain for a plain p and a
\* directory for a directory, file or link p.
C5_SliceRole ==
    (out.op = "slice" /\ out.res.err = NoError) =>
        out.res.val.role =
            IF IncludesFinal(Len(out.self.members), out.start, out.stop, out.step)
            THEN out.self.role
            ELSE IF out.self.role = "Path" THEN "Path" ELSE "Dir"

(***************************************************************************)
(* Properties of the grammars.  What a text should parse to is stated here *)
(* from the text alone, character by character.                            *)
(***************************************************************************)
\* the text with every separator of the grammar written '/'
Slashed(o, t) ==
    IF o = "nt"
    THEN [i \in 1..Len(t) |-> IF t[i] = BACKSLASH THEN SLASH ELSE t[i]]
    ELSE t

RECURSIVE Runs(_, _)
\* the maximal slash-free runs of s in order, cur being the run in progress
Runs(s, cur) ==
    IF Len(s) = 0 THEN (IF cur = << >> THEN << >> ELSE << cur >>)
    ELSE IF Head(s) = SLASH
         THEN (IF cur = << >> THEN << >> ELSE << cur >>) \o Runs(Tail(s), << >>)
         ELSE Runs(Tail(s), Append(cur, Head(s)))

IsNotCurdir(r) == r # << DOT >>

\* the elements a slashed text stands for: its runs other than '.'
ExpectedElements(s) ==
    LET kept == SelectSeq(Runs(s, << >>), IsNotCurdir)
    IN  [i \in 1..Len(kept) |-> Elem(kept[i])]

Drop(s, n) == SubSeq(s, n + 1, Len(s))

RECURSIVE UpToSlash(_)
\* the characters of s before its first '/'
UpToSlash(s) ==
    IF Len(s) = 0 \/ Head(s) = SLASH THEN << >>
    ELSE << Head(s) >> \o UpToSlash(Tail(s))

RECURSIVE PastSlashes(_)
\* s without the slashes it opens with
PastSlashes(s) ==
    IF Len(s) > 0 /\ Head(s) = SLASH THEN PastSlashes(Tail(s)) ELSE s

IsUNCText(o, s) == o = "nt" /\ Len(s) >= 2 /\ s[1] = SLASH /\ s[2] = SLASH

HasDrivePrefix(o, s) ==
    o = "nt" /\ Len(s) >= 2 /\ s[1] \notin {SLASH, BACKSLASH} /\ s[2] = COLON

\* C6: a POSIX text raises NotImplementedError exactly when it opens with
\* two slashes and not three; any other text parses to PosixRoot, if it
\* opens with a slash, followed by its non-empty segments other than '.',
\* '..' kept.
C6_PosixGrammar ==
    (os = "posix" /\ out.op = "parse") =>
        LET s == out.text
            rooted == Len(s) >= 1 /\ s[1] = SLASH
            twoSlashes == /\ Len(s) >= 2
                          /\ s[1] = SLASH
                          /\ s[2] = SLASH
                          /\ (Len(s) = 2 \/ s[3] # SLASH)
        IN  IF twoSlashes THEN out.res.err = NotImplementedError
            ELSE /\ out.res.err = NoError
                 /\ out.res.val.members =
                        (IF rooted THEN << PosixROOT >> ELSE << >>)
                        \o ExpectedElements(s)

\* a text of three slashes and more parsed to the root, '..' and an element
C6_Witness ==
    /\ os = "posix"
    /\ out.op = "parse"
    /\ Len(out.text) >= 3
    /\ SubSeq(out.text, 1, 3) = << SLASH, SLASH, SLASH >>
    /\ out.res.err = NoError
    /\ out.res.val.members = << PosixROOT, Elem(pardir), Elem(<< "a" >>) >>

\* C7: a Windows text opening with two separators raises ValueError when
\* it opens with three, when no separator follows the host or when the
\* mountpoint is empty; otherwise it parses to UNCRoot(host, mountpoint),
\* host the text between the opening and the next separator, mountpoint the
\* text after the separators that follow the host up to the next separator
\* or the end, followed by the elements of what remains.
C7_UNCGrammar ==
    (os = "nt" /\ out.op = "parse" /\ IsUNCText(os, Slashed(os, out.text))) =>
        LET s == Slashed(os, out.text)
            afterLead == Drop(s, 2)
            host == UpToSlash(afterLead)
            afterHost == Drop(afterLead, Len(host))
            atMount == PastSlashes(afterHost)
            mountpoint == UpToSlash(atMount)
            remainder == Drop(atMount, Len(mountpoint))
        IN  IF (Len(s) >= 3 /\ s[3] = SLASH) \/ afterHost = << >> \/ atMount = << >>
            THEN out.res.err = ValueError
            ELSE /\ out.res.err = NoError
                 /\ out.res.val.members =
                        << NTUNCRoot(host, mountpoint) >> \o ExpectedElements(remainder)

\* a UNC text written with both separators and an uppercase host parsed
\* to a root of lowercase host and one element
C7_Witness ==
    /\ os = "nt"
    /\ out.op = "parse"
    /\ out.res.err = NoError
    /\ Len(out.res.val.members) = 2
    /\ out.res.val.members[1].kind = "NTUNCRoot"
    /\ out.res.val.members[1].a = << "a" >>
    /\ Len(out.text) >= 3
    /\ out.text[3] = "A"
    /\ \E i \in 3..Len(out.text) : out.text[i] = SLASH
    /\ \E i \in 3..Len(out.text) : out.text[i] = BACKSLASH

\* C8: a Windows text not opening with two separators parses to CURROOT
\* after one leading separator, to Drive(letter) after "<letter>:" and a
\* separator, to UnrootedDrive(letter) after "<letter>:" alone, and to no
\* root otherwise, a text whose second character is ':' after a non-letter
\* included; the members after the root are the non-empty segments other
\* than '.' of the text left.
C8_NTRootDetection ==
    (os = "nt" /\ out.op = "parse" /\ ~IsUNCText(os, Slashed(os, out.text))) =>
        LET s == Slashed(os, out.text)
            root == IF Len(s) >= 1 /\ s[1] = SLASH THEN << CURROOT >>
                    ELSE IF HasDrivePrefix(os, s) /\ isalpha(s[1])
                    THEN IF Len(s) >= 3 /\ s[3] = SLASH
                         THEN << NTDrive(<< s[1] >>).val >>
                         ELSE << NTUnrootedDrive(<< s[1] >>).val >>
                    ELSE << >>
            left == IF HasDrivePrefix(os, s) /\ isalpha(s[1]) THEN Drop(s, 2) ELSE s
        IN  /\ out.res.err = NoError
            /\ out.res.val.members = root \o ExpectedElements(left)

(***************************************************************************)
(* Round trips.                                                            *)
(***************************************************************************)
SepCount(s) == Cardinality({i \in 1..Len(s) : s[i] = SLASH})

\* no separator is doubled, but for the two that open a UNC text, and none
\* ends the text, but for the one that is or closes the root
NoRedundantSeparators(o, t) ==
    LET s == Slashed(o, t)
    IN  /\ \A i \in 1..(Len(s) - 1) :
              (s[i] = SLASH /\ s[i + 1] = SLASH) => (i = 1 /\ IsUNCText(o, s))
        /\ (Len(s) > 0 /\ s[Len(s)] = SLASH) =>
              \/ Len(s) = 1
              \/ HasDrivePrefix(o, s) /\ Len(s) = 3
              \/ IsUNCText(o, s) /\ SepCount(s) = 4

\* no segment of the text, a drive prefix set aside, is '.'
NoCurdirSegments(o, t) ==
    LET s == Slashed(o, t)
        body == IF HasDrivePrefix(o, s) THEN Drop(s, 2) ELSE s
        runs == Runs(body, << >>)
    IN  \A i \in 1..Len(runs) : runs[i] # curdir

IsLowerText(x) == \A i \in 1..Len(x) : LowerChar(x[i]) = x[i]

\* the text is not empty and, on Windows, is written as str() writes: '\'
\* the only separator, the letter of a rooted drive uppercase and that of
\* an unrooted drive lowercase, a UNC host and mountpoint lowercase and the
\* mountpoint closed by a separator
CanonicalForm(o, t) ==
    /\ t # EmptyText
    /\ o = "nt" =>
          /\ \A i \in 1..Len(t) : t[i] # SLASH
          /\ HasDrivePrefix(o, t) =>
                IF Len(t) >= 3 /\ t[3] = BACKSLASH
                THEN UpperChar(t[1]) = t[1]
                ELSE LowerChar(t[1]) = t[1]
          /\ IsUNCText(o, Slashed(o, t)) =>
                LET runs == Runs(Slashed(o, t), << >>)
                IN  /\ SepCount(Slashed(o, t)) >= 4
                    /\ Len(runs) >= 2
                    /\ IsLowerText(runs[1])
                    /\ IsLowerText(runs[2])

\* C9 as stated: a text that parses, has no redundant separator and no
\* '.' segment is rendered back as it was written.
C9_TextRoundTrip ==
    (/\ out.op = "parse"
     /\ out.res.err = NoError
     /\ NoRedundantSeparators(os, out.text)
     /\ NoCurdirSegments(os, out.text)) => out.str = out.text

\* C9 amended: a non-empty text that parses, has no redundant separator
\* and no '.' segment and, on Windows, is written in the form str() writes,
\* is rendered back as it was written.
C9_CanonicalRoundTrip ==
    (/\ out.op = "parse"
     /\ out.res.err = NoError
     /\ NoRedundantSeparators(os, out.text)
     /\ NoCurdirSegments(os, out.text)
     /\ CanonicalForm(os, out.text)) => out.str = out.text

\* a Windows text of a rooted drive and an element came back unchanged
C9_Witness ==
    /\ os = "nt"
    /\ out.op = "parse"
    /\ out.res.err = NoError
    /\ NoRedundantSeparators(os, out.text)
    /\ NoCurdirSegments(os, out.text)
    /\ CanonicalForm(os, out.text)
    /\ Len(out.res.val.members) = 2
    /\ out.res.val.members[1].kind = "NTDrive"
    /\ out.str = out.text

\* C10: a path made of one non-empty element holding no separator and no
\* alternate separator, rendered and parsed again, gives a path with the
\* same members that compares equal to it.
C10_ElementRoundTrip ==
    (/\ out.op = "element"
     /\ out.text # EmptyText
     /\ \A i \in 1..Len(out.text) :
            /\ out.text[i] # sep(os)
            /\ HasAltsep(os) => out.text[i] # altsep) =>
        /\ out.res.err = NoError
        /\ out.re.err = NoError
        /\ out.re.val.members = out.res.val.members
        /\ out.eq = [err |-> NoError, val |-> TRUE]

(***************************************************************************)
(* Construction: Spec with paths built from element lists and slicing, so  *)
(* that the register holds values made in every way the algebra offers.    *)
(***************************************************************************)
\* a root of the other grammar
ForeignRoot(o) == IF o = "posix" THEN CURROOT ELSE PosixROOT

\* the items given in element lists: valid strings, '.', '..', an empty
\* string, strings holding each separator character, a root of the grammar,
\* a root of the other grammar and an object that is neither
ListItems(o) ==
    {Elem(<< "a" >>), Elem(curdir), Elem(pardir), Elem(EmptyText),
     Elem(<< "a", SLASH >>), Elem(<< BACKSLASH, "a" >>),
     SomeRoot(o), ForeignRoot(o), Other}

ElementLists(o) == SeqsUpTo(ListItems(o), MaxSegs)

\* Path(items), Dir(items), File(items), Link(items) for an element list
NewList(role, items) ==
    LET r == new(os, role, ArgList(items))
    IN  /\ out' = [Blank EXCEPT !.op = "newlist", !.role = role,
                                !.arg = ArgList(items), !.res = r]
        /\ p' = Keep(r)
        /\ UNCHANGED os

NextBuild ==
    \/ Idle /\ \E role \in Roles, t \in OperandTexts(os) : New(role, t)
    \/ Idle /\ \E role \in Roles, root \in Roots(os) : NewRoot(role, root)
    \/ Idle /\ \E role \in Roles, items \in ElementLists(os) : NewList(role, items)
    \/ Idle /\ \E role \in Roles : Convert(role)
    \/ Idle /\ \E arg \in AddArgs(os) : Add(arg)
    \/ Idle /\ \E arg \in RaddArgs(os) : Radd(arg)
    \/ Idle /\ \E start \in Bounds, stop \in Bounds, step \in Steps :
                  GetItem(start, stop, step)
    \/ Return

SpecBuild == Init /\ [][NextBuild]_vars

RootKinds == PosixRootKinds \cup NTRootKinds

AbsRootKinds == {"PosixRoot", "NTDrive", "NTUNCRoot"}

\* what C11 states of one path value
Absoluteness(o, v) ==
    LET firstAbs == Len(v.members) > 0 /\ v.members[1].kind \in AbsRootKinds
        noRoot == \A i \in 1..Len(v.members) : v.members[i].kind \notin RootKinds
        firstNonAbs == /\ Len(v.members) > 0
                       /\ v.members[1].kind \in {"NTCurRoot", "NTUnrootedDrive"}
    IN  /\ isabs(o, v) <=> firstAbs
        /\ isrel(o, v) <=> noRoot
        /\ ~(isabs(o, v) /\ isrel(o, v))
        /\ (~isabs(o, v) /\ ~isrel(o, v)) <=> firstNonAbs
        /\ o = "posix" => (isabs(o, v) \/ isrel(o, v))

\* C11: for every path value made by construction, conversion,
\* concatenation or slicing, isabs holds exactly when the first member is
\* an absolute root, isrel exactly when no member is a root, never both,
\* and neither exactly when the first member is CURROOT or an unrooted
\* drive, which does not happen under the POSIX grammar.
C11_Absoluteness ==
    /\ Absoluteness(os, p)
    /\ (~Idle /\ out.res.err = NoError) => Absoluteness(os, out.res.val)

\* a Windows path rooted at the current drive, with an element after the
\* root, is neither absolute nor relative
C11_Witness ==
    /\ os = "nt"
    /\ Len(p.members) = 2
    /\ p.members[1] = CURROOT
    /\ ~isabs(os, p)
    /\ ~isrel(os, p)

\* a string item that may not be an element: empty, or holding the
\* separator or, on Windows, the alternate separator
BadString(o, item) ==
    /\ item.kind = "elem"
    /\ \/ item.a = << >>
       \/ \E k \in 1..Len(item.a) :
             item.a[k] = (IF o = "posix" THEN SLASH ELSE BACKSLASH)
       \/ o = "nt" /\ \E k \in 1..Len(item.a) : item.a[k] = SLASH

\* an item at position i that is no string and no root of the grammar in
\* first position
BadObject(o, items, i) ==
    /\ items[i].kind # "elem"
    /\ ~(i = 1 /\ items[i].kind \in
                     (IF o = "posix" THEN {"PosixRoot"} ELSE NTRootKinds))

\* the items without the '.' strings
WithoutCurdir(items) ==
    LET IsKept(item) == ~(item.kind = "elem" /\ item.a = << DOT >>)
    IN  SelectSeq(items, IsKept)

\* C12 as stated: construction from an element list raises ValueError
\* exactly when some string item is empty or holds a separator; a root
\* after the first position or an item that is neither string nor root is
\* rejected; a failure makes no value; otherwise the members are the items
\* without the '.' strings.
C12_ElementConstruction ==
    out.op = "newlist" =>
        LET items == out.arg.items
            n == Len(items)
        IN  /\ (out.res.err = ValueError) <=> (\E i \in 1..n : BadString(os, items[i]))
            /\ (\E i \in 1..n : BadObject(os, items, i)) => out.res.err # NoError
            /\ out.res.err # NoError => out.res.val = None
            /\ out.res.err = NoError => out.res.val.members = WithoutCurdir(items)

\* C12 amended: construction from an element list fails exactly when some
\* item is a bad string or a bad object, with the error of the first such
\* item in list order, ValueError for a string and TypeError for an object,
\* and makes no value; otherwise the members are the items without the '.'
\* strings.
C12_FirstOffender ==
    out.op = "newlist" =>
        LET items == out.arg.items
            n == Len(items)
            Bad(i) == BadString(os, items[i]) \/ BadObject(os, items, i)
        IN  IF \E i \in 1..n : Bad(i)
            THEN LET k == CHOOSE i \in 1..n : Bad(i) /\ \A j \in 1..(i - 1) : ~Bad(j)
                 IN  /\ out.res.err =
                            (IF items[k].kind = "elem" THEN ValueError ELSE TypeError)
                     /\ out.res.val = None
            ELSE /\ out.res.err = NoError
                 /\ out.res.val.members = WithoutCurdir(items)
                 /\ out.res.val.role = out.role

\* a Windows list whose second item holds the alternate separator was
\* refused with ValueError
C12_Witness ==
    /\ os = "nt"
    /\ out.op = "newlist"
    /\ Len(out.arg.items) = 2
    /\ out.arg.items[1] = Elem(<< "a" >>)
    /\ out.arg.items[2] = Elem(<< "a", SLASH >>)
    /\ out.res.err = ValueError

(***************************************************************************)
(* Normalization with expansion.  The environment is the home directory    *)
(* and the variables that are set.  The texts expanded here hold '~' only  *)
(* as a whole first segment and '$' only before a name of letters, which   *)
(* is where the operators below follow the library.                        *)
(***************************************************************************)
TILDE == "~"

DOLLAR == "$"

\* the characters of a variable name
IsVarChar(ch) == isalpha(ch)

RECURSIVE VarName(_)
\* the longest variable name a text opens with
VarName(s) ==
    IF Len(s) > 0 /\ IsVarChar(Head(s)) THEN << Head(s) >> \o VarName(Tail(s))
    ELSE << >>

\* str.rstrip(ch)
RECURSIVE rstrip(_, _)
rstrip(s, ch) ==
    IF Len(s) > 0 /\ s[Len(s)] = ch THEN rstrip(SubSeq(s, 1, Len(s) - 1), ch) ELSE s

\* posixpath.expanduser: '~' alone or before '/' becomes $HOME; a named
\* user that the password database does not know leaves the text as it is
posix_expanduser(path, env) ==
    IF ~startswith(path, << TILDE >>) THEN path
    ELSE LET f == find(path, SLASH, 1)
             i == IF f < 0 THEN Len(path) ELSE f
         IN  IF i # 1 THEN path
             ELSE LET expanded == rstrip(env.home, SLASH) \o From(path, i)
                  IN  IF expanded = EmptyText THEN << SLASH >> ELSE expanded

\* ntpath.expanduser with HOME set: '~' alone or before a separator becomes
\* $HOME; '~name' becomes the sibling of $HOME of that name
nt_expanduser(path, env) ==
    IF ~startswith(path, << TILDE >>) THEN path
    ELSE LET fs == find(path, SLASH, 1)
             fb == find(path, BACKSLASH, 1)
             i == IF fs < 0 /\ fb < 0 THEN Len(path)
                  ELSE IF fs < 0 THEN fb
                  ELSE IF fb < 0 THEN fs
                  ELSE Min(fs, fb)
             seps == {k \in 1..Len(env.home) : env.home[k] \in {SLASH, BACKSLASH}}
             last == IF seps = {} THEN (IF Slice(env.home, 1, 2) = << COLON >> THEN 2 ELSE 0)
                     ELSE CHOOSE k \in seps : \A j \in seps : j <= k
         IN  IF i = 1 THEN env.home \o From(path, i)
             ELSE SubSeq(env.home, 1, last) \o From(path, 1)

RECURSIVE posix_expandvars(_, _)
\* posixpath.expandvars: each $name that is set is replaced by its value,
\* once; what the value holds is not expanded again
posix_expandvars(path, env) ==
    IF Len(path) = 0 THEN path
    ELSE IF Head(path) # DOLLAR THEN << Head(path) >> \o posix_expandvars(Tail(path), env)
    ELSE LET name == VarName(Tail(path))
             tail == From(path, 1 + Len(name))
         IN  IF name = EmptyText THEN << DOLLAR >> \o posix_expandvars(Tail(path), env)
             ELSE IF name \in DOMAIN env.vars
             THEN env.vars[name] \o posix_expandvars(tail, env)
             ELSE << DOLLAR >> \o name \o posix_expandvars(tail, env)

RECURSIVE nt_expandvars(_, _)
\* ntpath.expandvars: as on POSIX, and '$$' stands for one '$'
nt_expandvars(path, env) ==
    IF Len(path) = 0 THEN path
    ELSE IF Head(path) # DOLLAR THEN << Head(path) >> \o nt_expandvars(Tail(path), env)
    ELSE IF Slice(path, 1, 2) = << DOLLAR >>
    THEN << DOLLAR >> \o nt_expandvars(From(path, 2), env)
    ELSE LET name == VarName(Tail(path))
             tail == From(path, 1 + Len(name))
         IN  IF name \in DOMAIN env.vars
             THEN env.vars[name] \o nt_expandvars(tail, env)
             ELSE << DOLLAR >> \o name \o nt_expandvars(tail, env)

\* a norm that re-parses into the plain class
norm_expand_plain(o, v, user, vars_, env) ==
    LET s0 == build_str(o, v)
        s1 == IF ~user THEN s0
              ELSE IF o = "posix" THEN posix_expanduser(s0, env)
              ELSE nt_expanduser(s0, env)
        s2 == IF ~vars_ THEN s1
              ELSE IF o = "posix" THEN posix_expandvars(s1, env)
              ELSE nt_expandvars(s1, env)
    IN  new(o, "Path", ArgStr(normstr(o, s2)))

\* BasePath.norm(user, vars, False) in environment env
norm_expand(o, v, user, vars_, env) ==
    LET s0 == build_str(o, v)
        s1 == IF ~user THEN s0
              ELSE IF o = "posix" THEN posix_expanduser(s0, env)
              ELSE nt_expanduser(s0, env)
        s2 == IF ~vars_ THEN s1
              ELSE IF o = "posix" THEN posix_expandvars(s1, env)
              ELSE nt_expandvars(s1, env)
    IN  new(o, v.role, ArgStr(normstr(o, s2)))

\* the home directory of the environments
Home(o) == IF o = "posix" THEN << SLASH, "A" >> ELSE << "A", COLON, BACKSLASH, "A" >>

\* the environments: no variable set; a set to a plain name; a set to a
\* reference to A; a set to '~'
Envs(o) ==
    {[home |-> Home(o), vars |-> << >>],
     [home |-> Home(o), vars |-> (<< "a" >> :> << "A" >>)],
     [home |-> Home(o), vars |-> (<< "a" >> :> << DOLLAR, "A" >>) @@ (<< "A" >> :> << "a" >>)],
     [home |-> Home(o), vars |-> (<< "a" >> :> << TILDE >>)]}

NormTokens == {<< "a" >>, pardir, << DOLLAR, "a" >>, << TILDE >>}

\* the operand prefixes and one that puts the element '.:' first
NormPrefixes(o) == Prefixes(o) \cup {<< DOT, SLASH, DOT, COLON, SLASH >>}

NormTexts(o) ==
    {pre \o join(<< SLASH >>, segs) :
        pre \in NormPrefixes(o), segs \in SeqsUpTo(NormTokens, MaxSegs)}

\* v = role(t), n = v.norm(user, vars), n.norm(user, vars) in the same
\* environment, and the comparison of the two, for a text that parses
NormTwice(role, t, user, vars_, env) ==
    \E v \in {new(os, role, ArgStr(t))} :
        /\ v.err = NoError
        /\ \E n1 \in {norm_expand(os, v.val, user, vars_, env)} :
             \E n2 \in {IF n1.err = NoError
                        THEN norm_expand(os, n1.val, user, vars_, env)
                        ELSE NoResult} :
                out' = [op |-> "norm", self |-> v.val, user |-> user, vars |-> vars_,
                        env |-> env, res |-> n1, re |-> n2,
                        eq |-> IF n1.err = NoError /\ n2.err = NoError
                               THEN eq(os, n2.val, n1.val) ELSE NoTruth]
        /\ UNCHANGED << os, p >>

NextNorm ==
    \/ Idle /\ \E role \in Roles, t \in NormTexts(os), user \in BOOLEAN,
                  vars_ \in BOOLEAN, env \in Envs(os) :
                  NormTwice(role, t, user, vars_, env)
    \/ Return

SpecNorm == Init /\ [][NextNorm]_vars

AbsEnvs(o) ==
    IF o = "posix"
    THEN {[cwd |-> c, tail |-> EmptyText] :
            c \in {<< SLASH >>, << SLASH, "a" >>, << SLASH, "a", SLASH, "A" >>}}
    ELSE {[cwd |-> c, tail |-> d] :
            c \in {<< "A", COLON, BACKSLASH >>, << "a", COLON, BACKSLASH, "a" >>,
                   << "A", COLON, BACKSLASH, "a", BACKSLASH, "A" >>},
            d \in {EmptyText, << "a" >>}}

\* nt._getfullpathname(text) for the text of a root that is not absolute
getfullpathname(env, text) ==
    IF text = << BACKSLASH >> THEN SubSeq(env.cwd, 1, 3)
    ELSE IF lower(text) = lower(SubSeq(env.cwd, 1, 2)) THEN env.cwd
    ELSE text \o << BACKSLASH >> \o env.tail

\* BaseDir.cwd
cwd(o, env) == new(o, "Dir", ArgStr(env.cwd))

\* abspath of _NTCurRootType and of NTUnrootedDrive
NTRoot_abspath(env, root) == new("nt", "Path", ArgStr(getfullpathname(env, RootStr(root))))

\* abspath that returns a path starting with any root of its grammar as it is
abspath_rooted_unchanged(o, v, env) ==
    IF Len(v.members) = 0 THEN cwd(o, env)
    ELSE IF IsOSRoot(o, v.members[1]) THEN Ok(v)
    ELSE LET s == add(o, cwd(o, env).val, ArgPath(v))
         IN  IF s.err # NoError THEN s ELSE new(o, v.role, ArgPath(s.val))

\* BasePath.abspath
abspath(o, v, env) ==
    IF Len(v.members) = 0 THEN cwd(o, env)
    ELSE IF IsOSRoot(o, v.members[1])
    THEN IF RootIsAbs(v.members[1]) THEN Ok(v)
         ELSE LET r == NTRoot_abspath(env, v.members[1])
                  rest == getitem(o, v, Given(1), Absent, Absent)
              IN  IF r.err # NoError THEN r
                  ELSE IF rest.err # NoError THEN rest
                  ELSE add(o, r.val, ArgPath(rest.val))
    ELSE LET s == add(o, cwd(o, env).val, ArgPath(v))
         IN  IF s.err # NoError THEN s ELSE new(o, v.role, ArgPath(s.val))

\* v = role(t), v.abspath() in the environment env, and abspath()[:-1]
\* compared with the working directory
Abspath(role, t, env) ==
    \E v \in {new(os, role, ArgStr(t))}, d \in {cwd(os, env)} :
        /\ v.err = NoError
        /\ \E r \in {abspath(os, v.val, env)} :
             \E cut \in {IF r.err = NoError
                         THEN getitem(os, r.val, Absent, Given(-1), Absent)
                         ELSE NoResult} :
                out' = [op |-> "abspath", self |-> v.val, env |-> env,
                        cwd |-> d, res |-> r, cut |-> cut,
                        eq |-> IF r.err = NoError /\ cut.err = NoError
                               THEN eq(os, cut.val, d.val) ELSE NoTruth]
        /\ UNCHANGED << os, p >>

NextAbs ==
    \/ Idle /\ \E role \in Roles, t \in OperandTexts(os), env \in AbsEnvs(os) :
                    Abspath(role, t, env)
    \/ Return

SpecAbs == Init /\ [][NextAbs]_vars

\* C14: abspath(p) is the working directory when p has no members, p itself
\* when p starts with an absolute root, the working directory's members
\* followed by p's members when p has no root, and the resolved form of a
\* root that is not absolute followed by p's remaining members otherwise;
\* the result is always absolute, and for a one-element relative File f,
\* f.abspath()[:-1] equals the working directory.
C14_Abspath ==
    out.op = "abspath" =>
        LET v == out.self
            n == Len(v.members)
            first == v.members[1]
        IN  /\ out.res.err = NoError
            /\ out.cwd.err = NoError
            /\ n = 0 => out.res.val = out.cwd.val
            /\ (n > 0 /\ first.kind \in AbsRootKinds) => out.res.val = v
            /\ (n > 0 /\ first.kind \notin RootKinds) =>
                    out.res.val.members = out.cwd.val.members \o v.members
            /\ (n > 0 /\ first.kind \in RootKinds \ AbsRootKinds) =>
                    LET r == NTRoot_abspath(out.env, first)
                    IN  /\ r.err = NoError
                        /\ out.res.val.members = r.val.members \o Tail(v.members)
            /\ isabs(os, out.res.val)
            /\ (n = 1 /\ first.kind \notin RootKinds /\ v.role = "File") =>
                    /\ out.cut.err = NoError
                    /\ out.eq.err = NoError
                    /\ out.eq.val

\* a Windows File on the current drive's root, made absolute with the drive
\* of the working directory
C14_Witness ==
    /\ out.op = "abspath"
    /\ os = "nt"
    /\ out.self.role = "File"
    /\ Len(out.self.members) = 2
    /\ out.self.members[1] = CURROOT
    /\ out.res.err = NoError
    /\ out.res.val.members[1] = NTDrive(<< "A" >>).val
    /\ Len(out.res.val.members) = 2

(***************************************************************************)
(* realpath and relpathto, on a disk without symbolic links: os.path's     *)
(* realpath makes the text absolute from the working directory and         *)
(* collapses it.                                                           *)
(***************************************************************************)
\* os.path.join of an absolute base and a relative rest
JoinText(o, base, rest) ==
    IF rest = EmptyText THEN base
    ELSE IF endswith(base, << sep(o) >>) THEN base \o rest
    ELSE base \o << sep(o) >> \o rest

\* posixpath.realpath(text)
posix_realpath(env, text) ==
    posix_normpath(IF startswith(text, << SLASH >>) THEN text
                   ELSE JoinText("posix", env.cwd, text))

\* ntpath.realpath(text), which is ntpath.abspath
nt_realpath(env, text) ==
    LET path == replace(text, SLASH, BACKSLASH)
        sd == nt_splitdrive(path)
        full == IF sd[1] # EmptyText
                THEN IF startswith(sd[2], << BACKSLASH >>) \/ startswith(sd[1], << BACKSLASH >>)
                     THEN path
                     ELSE JoinText("nt", getfullpathname(env, sd[1]), sd[2])
                ELSE IF startswith(path, << BACKSLASH >>)
                THEN SubSeq(env.cwd, 1, 2) \o path
                ELSE JoinText("nt", env.cwd, path)
    IN  nt_normpath(full)

\* BasePath.realpath
realpath(o, v, env) ==
    new(o, v.role,
        ArgStr(IF o = "posix" THEN posix_realpath(env, build_str(o, v))
               ELSE nt_realpath(env, build_str(o, v))))

\* self.normcasestr(element): a static method of NTPath only
normcasestr(o, string) ==
    IF o = "nt" THEN [err |-> NoError, val |-> lower(string)]
    ELSE [err |-> AttributeError, val |-> EmptyText]

RECURSIVE EqualPrefix(_, _, _, _)
\* the while loop of relpathto from index i (counted from 0): the index it
\* stops at, or -1 when normcasestr raises
EqualPrefix(o, src, dst, i) ==
    IF i < Len(src) /\ i < Len(dst)
    THEN LET a == normcasestr(o, src[i + 1].a)
             b == normcasestr(o, dst[i + 1].a)
         IN  IF a.err # NoError \/ b.err # NoError THEN -1
             ELSE IF a.val = b.val THEN EqualPrefix(o, src, dst, i + 1)
             ELSE i
    ELSE i

\* the body of relpathto once both ends are resolved: src and real
relpath_of(o, src, real) ==
    IF src.err # NoError THEN src
    ELSE IF real.err # NoError THEN real
    ELSE IF MemberEq(src.val.members[1], real.val.members[1])
    THEN LET i == EqualPrefix(o, src.val.members, real.val.members, 1)
             rest == getitem(o, real.val, Given(i), Absent, Absent)
             ups == [j \in 1..(Len(src.val.members) - i) |-> Elem(pardir)]
         IN  IF i = -1 THEN Fail(AttributeError)
             ELSE IF rest.err # NoError THEN rest
             ELSE radd(o, rest.val, ArgList(ups))
    ELSE real

\* BasePath.relpathto(self, dst): both ends are resolved first
relpathto(o, self, dst, env) ==
    LET made == new(o, self.role, dst)
    IN  relpath_of(o, realpath(o, self, env),
                   IF made.err = NoError THEN realpath(o, made.val, env) ELSE made)

\* role(t).relpathto(d) in the environment env, for a text t that parses
Relpathto(role, t, d, env) ==
    \E v \in {new(os, role, ArgStr(t))}, made \in {new(os, role, ArgStr(d))} :
        /\ v.err = NoError
        /\ out' = [op |-> "relpathto", self |-> v.val, text |-> d, env |-> env,
                   src |-> realpath(os, v.val, env),
                   dst |-> IF made.err = NoError THEN realpath(os, made.val, env) ELSE made,
                   res |-> relpathto(os, v.val, ArgStr(d), env)]
        /\ UNCHANGED << os, p >>

\* source and destination texts: relative, rooted, and on Windows with a
\* drive, a drive's working directory or a UNC mount
RelPrefixes(o) ==
    IF o = "posix" THEN {EmptyText, << SLASH >>}
    ELSE {EmptyText, << SLASH >>, << "a", COLON >>, << "A", COLON, SLASH >>,
          << SLASH, SLASH, "a", SLASH, "A", SLASH >>}

RelTexts(o) ==
    {pre \o join(<< SLASH >>, segs) :
        pre \in RelPrefixes(o), segs \in SeqsUpTo({<< "a" >>, << "A" >>}, MaxSegs)}

RelEnvs(o) == {env \in AbsEnvs(o) : o = "nt" => env.tail # EmptyText}

NextRel ==
    \/ Idle /\ \E role \in Roles, t \in RelTexts(os), d \in RelTexts(os),
                  env \in RelEnvs(os) : Relpathto(role, t, d, env)
    \/ Return

SpecRel == Init /\ [][NextRel]_vars

RECURSIVE CommonPrefix(_, _, _, _)
\* the length of the longest common member-wise prefix of a and b from
\* position i on, elements compared by their case-normalized strings under
\* the Windows grammar
CommonPrefix(o, a, b, i) ==
    IF i <= Len(a) /\ i <= Len(b)
       /\ (IF IsStr(a[i]) /\ IsStr(b[i]) /\ o = "nt"
           THEN lower(a[i].a) = lower(b[i].a) ELSE MemberEq(a[i], b[i]))
    THEN CommonPrefix(o, a, b, i + 1)
    ELSE i - 1

\* C15: when the real forms of src and dst have the same root,
\* src.relpathto(dst) is a relative path: one '..' per member of src beyond
\* the longest common member-wise prefix, then the members of dst beyond it;
\* when the roots differ it is dst's real form.
C15_Relpathto ==
    (out.op = "relpathto" /\ out.src.err = NoError /\ out.dst.err = NoError) =>
        LET s == out.src.val.members
            d == out.dst.val.members
            k == CommonPrefix(os, s, d, 1)
        IN  /\ out.res.err = NoError
            /\ IF MemberEq(s[1], d[1])
               THEN /\ out.res.val.members =
                            [j \in 1..(Len(s) - k) |-> Elem(pardir)] \o SubSeq(d, k + 1, Len(d))
                    /\ isrel(os, out.res.val)
               ELSE out.res.val = out.dst.val

(***************************************************************************)
(* The disk.  What the operating system finds at a path is an entity: its  *)
(* kind is "absent", "dir", "file", "link" or "other" (a device, a socket) *)
(* and, for a link, target is the kind of what the link finally leads to   *)
(* ("absent" for a dangling link).                                         *)
(***************************************************************************)
Kinds == {"absent", "dir", "file", "other"}

Entity(kind, target) == [kind |-> kind, target |-> target]

Entities ==
    {Entity(k, k) : k \in Kinds} \cup {Entity("link", k) : k \in Kinds}

\* os.stat(text), which follows links: [err, mode]
os_stat(entity) ==
    IF entity.target = "absent" THEN [err |-> OSError, mode |-> "absent"]
    ELSE [err |-> NoError, mode |-> entity.target]

\* os.lstat(text), which does not
os_lstat(entity) ==
    IF entity.kind = "absent" THEN [err |-> OSError, mode |-> "absent"]
    ELSE [err |-> NoError, mode |-> entity.kind]

\* Stats(path, usecache = True, followlinks): the cached stat call
Stats(entity, followlinks) ==
    IF followlinks THEN os_stat(entity) ELSE os_lstat(entity)

\* BasePath.transform(followlinks, pathonerr), entity what the disk holds at
\* the text of the path
transform(o, v, followlinks, pathonerr, entity) ==
    LET s == Stats(entity, followlinks)
    IN  IF s.err # NoError
        THEN IF pathonerr THEN new(o, "Path", ArgPath(v)) ELSE Fail(s.err)
        ELSE IF s.mode = "link" THEN new(o, "Link", ArgPath(v))
        ELSE IF s.mode = "dir" THEN new(o, "Dir", ArgPath(v))
        ELSE IF s.mode = "file" THEN new(o, "File", ArgPath(v))
        ELSE new(o, "Path", ArgPath(v))

\* role(t).transform(followlinks, pathonerr) and the comparison of the
\* result with the path, for a text t that parses
Transform(role, t, followlinks, pathonerr, entity) ==
    LET v == new(os, role, ArgStr(t))
        r == transform(os, v.val, followlinks, pathonerr, entity)
    IN  /\ v.err = NoError
        /\ out' = [op |-> "transform", self |-> v.val, followlinks |-> followlinks,
                   pathonerr |-> pathonerr, entity |-> entity, res |-> r,
                   eq |-> IF r.err = NoError THEN eq(os, r.val, v.val) ELSE NoTruth]
        /\ UNCHANGED << os, p >>

\* the operand texts, and a Windows text whose element is '.:'
TransformTexts(o) == OperandTexts(o) \cup {<< DOT, SLASH, DOT, COLON >>}

NextTransform ==
    \/ Idle /\ \E role \in Roles, t \in TransformTexts(os), followlinks \in BOOLEAN,
                  pathonerr \in BOOLEAN, entity \in Entities :
                    Transform(role, t, followlinks, pathonerr, entity)
    \/ Return

SpecTransform == Init /\ [][NextTransform]_vars

\* the role the disk gives a path: the query fails for an absent entity and,
\* when links are followed, for a link that leads nowhere
QueryFails(entity, followlinks) ==
    \/ entity.kind = "absent"
    \/ followlinks /\ entity.target = "absent"

DiskRole(entity, followlinks) ==
    LET seen == IF followlinks THEN entity.target ELSE entity.kind
    IN  IF entity.kind = "link" /\ ~followlinks THEN "Link"
        ELSE IF seen = "dir" THEN "Dir"
        ELSE IF seen = "file" THEN "File"
        ELSE "Path"

\* the role and the members of the result of transform
C16_TransformRole ==
    out.op = "transform" =>
        IF QueryFails(out.entity, out.followlinks)
        THEN IF out.pathonerr
             THEN /\ out.res.err = NoError
                  /\ out.res.val = PathValue("Path", out.self.members)
             ELSE out.res.err = OSError
        ELSE /\ out.res.err = NoError
             /\ out.res.val =
                    PathValue(DiskRole(out.entity, out.followlinks), out.self.members)

\* C16: the result of transform(followlinks, pathonerr) has the members of
\* the path and the role the disk gives it: plain when the query fails and
\* pathonerr is set (the failure propagating otherwise), else Link for a
\* link that is not followed, Dir for a directory, File for a regular file,
\* plain for anything else; so a Dir or File value for a path that does not
\* exist transforms to a plain path that compares equal to it.
C16_Transform ==
    /\ C16_TransformRole
    /\ (/\ out.op = "transform"
        /\ out.self.role \in {"Dir", "File"}
        /\ out.entity.kind = "absent"
        /\ out.pathonerr) =>
            /\ out.res.err = NoError
            /\ out.res.val.role = "Path"
            /\ out.eq.err = NoError
            /\ out.eq.val

(***************************************************************************)
(* Ordering: a root compared with a string or a root, and two paths        *)
(* compared with <, == and >.                                              *)
(***************************************************************************)
\* the strings and objects a root is compared with
Comparands(o, type) ==
    IF type = "root" THEN Roots(o)
    ELSE IF type = "object" THEN {Other}
    ELSE {Elem(<< "a" >>), Elem(<< "A" >>), Elem(<< SLASH >>), Elem(EmptyText)}

\* cmp(root, other)
RootCompare(root, type, other) ==
    /\ out' = [op |-> "rootcmp", root |-> root, type |-> type, other |-> other,
               res |-> BaseRoot_cmp(root, type, other)]
    /\ UNCHANGED << os, p >>

\* role(t) < Path(d), role(t) == Path(d) and role(t) > Path(d), for texts
\* that parse
PathCompare(role, t, d) ==
    LET v == new(os, role, ArgStr(t))
        w == new(os, "Path", ArgStr(d))
    IN  /\ v.err = NoError
        /\ w.err = NoError
        /\ out' = [op |-> "pathcmp", self |-> v.val, other |-> w.val,
                   lt |-> lt(os, v.val, w.val), eq |-> eq(os, v.val, w.val),
                   gt |-> gt(os, v.val, w.val)]
        /\ UNCHANGED << os, p >>

NextOrd ==
    \/ Idle /\ \E root \in Roots(os), type \in ObjectTypes :
                    \E other \in Comparands(os, type) : RootCompare(root, type, other)
    \/ Idle /\ \E role \in {"Path", "File"}, t \in OperandTexts(os), d \in OperandTexts(os) :
                    PathCompare(role, t, d)
    \/ Return

SpecOrd == Init /\ [][NextOrd]_vars

\* a root compared with a string is smaller; two roots compare as their
\* canonical strings do
C17_RootVersusItem ==
    out.op = "rootcmp" =>
        /\ out.type \in {"str", "unicode"} => (out.res.err = NoError /\ out.res.val < 0)
        /\ out.type = "root" =>
                /\ out.res.err = NoError
                /\ out.res.val = StrCmp(RootStr(out.root), RootStr(out.other))
                /\ (RootStr(out.root) = RootStr(out.other)) => out.res.val = 0

\* a path that starts with a root is smaller than a path that starts with an
\* element
C17_RootedFirst ==
    (/\ out.op = "pathcmp"
     /\ Len(out.self.members) > 0 /\ ~IsStr(out.self.members[1])
     /\ Len(out.other.members) > 0 /\ IsStr(out.other.members[1])) =>
        /\ out.lt.err = NoError
        /\ out.lt.val

\* exactly one of p < q, p == q, p > q
C17_Trichotomy ==
    out.op = "pathcmp" =>
        /\ out.lt.err = NoError /\ out.eq.err = NoError /\ out.gt.err = NoError
        /\ \/ out.lt.val /\ ~out.eq.val /\ ~out.gt.val
           \/ ~out.lt.val /\ out.eq.val /\ ~out.gt.val
           \/ ~out.lt.val /\ ~out.eq.val /\ out.gt.val

\* C17: a root compares smaller than every element string, two roots compare
\* by their canonical strings, a path whose first member is a root orders
\* before every path whose first member is an element, and exactly one of
\* p < q, p == q, p > q holds of any two paths.
C17_RootOrdering ==
    /\ C17_RootVersusItem
    /\ C17_RootedFirst
    /\ C17_Trichotomy

(***************************************************************************)
(* The constructors of the Windows drive roots, called with a text.        *)
(***************************************************************************)
DriveChars == {"a", "A", EACUTE, CAPITAL_EACUTE, DOT, COLON, "1"}

DriveTexts == TextsUpTo(DriveChars, MaxSegs)

\* str.swapcase
swapcase(s) ==
    [i \in 1..Len(s) |-> IF LowerChar(s[i]) # s[i] THEN LowerChar(s[i]) ELSE UpperChar(s[i])]

\* NTDrive(x) or NTUnrootedDrive(x), and the same constructor on x in the
\* other case
MakeDrive(kind, x) ==
    /\ out' = [op |-> "drive", kind |-> kind, text |-> x,
               res |-> IF kind = "NTDrive" THEN NTDrive(x) ELSE NTUnrootedDrive(x),
               twin |-> IF kind = "NTDrive" THEN NTDrive(swapcase(x))
                        ELSE NTUnrootedDrive(swapcase(x))]
    /\ UNCHANGED << os, p >>

NextDrive ==
    \/ Idle /\ \E kind \in {"NTDrive", "NTUnrootedDrive"}, x \in DriveTexts : MakeDrive(kind, x)
    \/ Return

SpecDrive == Init /\ [][NextDrive]_vars

\* C18: NTDrive(x) and NTUnrootedDrive(x) fail with ValueError unless x is
\* exactly one alphabetic character and succeed for every single ASCII
\* letter; the letter of a drive is stored uppercase, that of an unrooted
\* drive lowercase, so the same letter in the other case gives a root with
\* the same string.
C18_DriveRoots ==
    out.op = "drive" =>
        LET x == out.text
            oneAlpha == Len(x) = 1 /\ x[1] \in {"a", "A", EACUTE, CAPITAL_EACUTE}
            oneAscii == Len(x) = 1 /\ x[1] \in {"a", "A"}
        IN  /\ ~oneAlpha => out.res.err = ValueError
            /\ out.res.err \in {NoError, ValueError}
            /\ oneAscii => out.res.err = NoError
            /\ out.res.err = NoError =>
                    /\ out.res.val.kind = out.kind
                    /\ out.kind = "NTDrive" => out.res.val.a = upper(x)
                    /\ out.kind = "NTUnrootedDrive" => out.res.val.a = lower(x)
                    /\ out.twin.err = NoError
                    /\ RootStr(out.twin.val) = RootStr(out.res.val)

\* a drive made from a lowercase letter holds the capital
C18_Witness ==
    /\ out.op = "drive"
    /\ out.kind = "NTDrive"
    /\ out.text = << "a" >>
    /\ out.res.err = NoError
    /\ out.res.val.a = << "A" >>
    /\ RootStr(out.twin.val) = << "A", COLON, BACKSLASH >>

(***************************************************************************)
(* Dir.walk.  A directory tree is a set of entries [rel, entity], rel the  *)
(* names that lead from the walked directory to the entry; the children of *)
(* a directory are the entries one name below it.  A link to a directory   *)
(* leads to an empty directory outside the tree.                           *)
(***************************************************************************)
Names == {"a", "b"}

Entry(rel, entity) == [rel |-> rel, entity |-> entity]

LeafEntities ==
    {Entity("dir", "dir"), Entity("file", "file"), Entity("other", "other"),
     Entity("link", "dir"), Entity("link", "file"), Entity("link", "absent")}

RECURSIVE Subtrees(_)
\* the trees of depth at most d that hang from one name: a leaf, or a
\* directory holding one such tree under the name "a"
Subtrees(d) ==
    LET leaves == {{Entry(<< >>, e)} : e \in LeafEntities}
    IN  IF d <= 1 THEN leaves
        ELSE leaves \cup
             {{Entry(<< >>, Entity("dir", "dir"))}
                  \cup {Entry(<< "a" >> \o x.rel, x.entity) : x \in s} :
                s \in Subtrees(d - 1)}

Under(n, s) == {Entry(<< n >> \o x.rel, x.entity) : x \in s}

Trees ==
    {sa \cup sb :
        sa \in {{}} \cup {Under("a", s) : s \in Subtrees(MaxSegs)},
        sb \in {{}} \cup {Under("b", s) : s \in Subtrees(1)}}

Modes == SUBSET {"d", "f", "l", "L", "o"}

\* what the disk holds at rel
EntityAt(tree, rel) ==
    IF \E x \in tree : x.rel = rel
    THEN (CHOOSE x \in tree : x.rel = rel).entity
    ELSE Entity("absent", "absent")

\* a listing that gives every directory the names of the walked directory
listdir_top(tree, rel) ==
    {n \in Names : \E x \in tree : x.rel = << n >>}

\* os.listdir of the directory at rel
listdir(tree, rel) ==
    {n \in Names : \E x \in tree : x.rel = rel \o << n >>}

\* the body of the loop of walk for one child: what it yields and whether
\* it walks into the child
walk_child(o, child, mode, entity) ==
    LET dirs == "d" \in mode
        files == "f" \in mode
        skiplinks == "L" \in mode
        links == "l" \in mode \/ skiplinks
        other == "o" \in mode
        s == Stats(entity, ~links)
    IN  IF s.err # NoError
        THEN [yield |-> IF other THEN << child >> ELSE << >>, descend |-> FALSE]
        ELSE IF s.mode = "dir"
        THEN [yield |-> IF dirs THEN << new(o, "Dir", ArgPath(child)).val >> ELSE << >>,
              descend |-> TRUE]
        ELSE IF s.mode = "file"
        THEN [yield |-> IF files THEN << new(o, "File", ArgPath(child)).val >> ELSE << >>,
              descend |-> FALSE]
        ELSE IF s.mode = "link"
        THEN [yield |-> IF links THEN << new(o, "Link", ArgPath(child)).val >> ELSE << >>,
              descend |-> FALSE]
        ELSE [yield |-> << child >>, descend |-> FALSE]

\* one activation of walk: the directory, where it is in the tree, and the
\* children its loop has still to take
Frame(dir, rel, todo) == [dir |-> dir, rel |-> rel, todo |-> todo]

RECURSIVE Unwind(_)
\* the activations whose loop has ended return to their caller
Unwind(stack) ==
    IF stack # << >> /\ Head(stack).todo = {} THEN Unwind(Tail(stack)) ELSE stack

\* the directory walk is called on
WalkTop(o) == new(o, "Dir", ArgStr(<< "a" >>)).val

\* Dir('a').walk(mode) on a disk that holds tree under 'a'
Walk(tree, mode) ==
    /\ out' = [op |-> "walk", self |-> WalkTop(os), tree |-> tree, mode |-> mode,
               stack |-> Unwind(<< Frame(WalkTop(os), << >>, listdir(tree, << >>)) >>),
               yielded |-> << >>, visited |-> << >>]
    /\ UNCHANGED << os, p >>

\* the walk after its innermost loop has taken the child named n
walk_next(o, w, n) ==
    LET f == Head(w.stack)
        child == add(o, f.dir, ArgStr(<< n >>)).val
        rel == f.rel \o << n >>
        r == walk_child(o, child, w.mode, EntityAt(w.tree, rel))
        rest == << [f EXCEPT !.todo = @ \ {n}] >> \o Tail(w.stack)
        inner == Frame(new(o, "Dir", ArgPath(child)).val, rel, listdir(w.tree, rel))
    IN  [w EXCEPT
            !.stack = Unwind(IF r.descend THEN << inner >> \o rest ELSE rest),
            !.yielded = @ \o [i \in 1..Len(r.yield) |-> [rel |-> rel, val |-> r.yield[i]]],
            !.visited = Append(@, rel)]

\* the innermost loop takes its next child, in whatever order os.listdir
\* gave the names
WalkStep ==
    /\ out.op = "walk"
    /\ out.stack # << >>
    /\ \E n \in Head(out.stack).todo : out' = walk_next(os, out, n)
    /\ UNCHANGED << os, p >>

\* the generator is exhausted
WalkDone == out.op = "walk" /\ out.stack = << >>

NextWalk ==
    \/ Idle /\ \E tree \in Trees, mode \in Modes : Walk(tree, mode)
    \/ WalkStep
    \/ WalkDone /\ Return

SpecWalk == Init /\ [][NextWalk]_vars

\* the role walk is to yield an entry in, "none" for an entry it is to skip
\* and "any" for a special object
ExpectedRole(entity, mode) ==
    LET asKind(k) ==
            IF k = "dir" THEN IF "d" \in mode THEN "Dir" ELSE "none"
            ELSE IF k = "file" THEN IF "f" \in mode THEN "File" ELSE "none"
            ELSE IF k = "absent" THEN IF "o" \in mode THEN "Path" ELSE "none"
            ELSE "any"
    IN  IF entity.kind = "link"
        THEN IF "L" \in mode THEN "none"
             ELSE IF "l" \in mode THEN "Link"
             ELSE asKind(entity.target)
        ELSE asKind(entity.kind)

YieldedAs(rel) ==
    {out.yielded[i].val.role : i \in {j \in 1..Len(out.yielded) : out.yielded[j].rel = rel}}

\* C19: a finished walk has yielded each directory as a Dir iff 'd' is in
\* the mode, each regular file as a File iff 'f' is, each link as a Link iff
\* 'l' is and 'L' is not, no link at all when 'L' is, a link as what it leads
\* to when neither is given, and what cannot be recognized as a Path iff
\* 'o' is; every yielded path is the walked directory's members followed by
\* the names that lead to the entry.
C19_WalkSelection ==
    WalkDone =>
        /\ \A x \in out.tree :
            LET role == ExpectedRole(x.entity, out.mode)
            IN  \/ role = "any"
                \/ role = "none" /\ YieldedAs(x.rel) = {}
                \/ role \notin {"any", "none"} /\ YieldedAs(x.rel) = {role}
        /\ \A i \in 1..Len(out.yielded) :
            out.yielded[i].val.members =
                out.self.members \o
                [k \in 1..Len(out.yielded[i].rel) |-> Elem(<< out.yielded[i].rel[k] >>)]

\* a tree without symbolic links
NoLinks(tree) == \A x \in tree : x.entity.kind # "link"

IsProperPrefix(q, r) == Len(q) < Len(r) /\ SubSeq(r, 1, Len(q)) = q

\* the entries of the tree that have been visited
Visited == {out.visited[i] : i \in 1..Len(out.visited)}

\* C20: in the sequence walk yields every object comes after its containing
\* directory (with 'd' in the mode every directory above a yielded object
\* was yielded before it), and the walk of a finite tree without symbolic
\* links ends after visiting each entry exactly once: every step visits an
\* entry of the tree not visited before, so there are at most as many steps
\* as entries; a walk that has not ended can always take a step; and a walk
\* that has ended has visited every entry.
C20_WalkOrdering ==
    out.op = "walk" =>
        /\ "d" \in out.mode =>
            \A j \in 1..Len(out.yielded) : \A n \in 1..(Len(out.yielded[j].rel) - 1) :
                \E i \in 1..(j - 1) :
                    /\ out.yielded[i].rel = SubSeq(out.yielded[j].rel, 1, n)
                    /\ out.yielded[i].val.role = "Dir"
        /\ \A i, j \in 1..Len(out.yielded) :
                IsProperPrefix(out.yielded[i].rel, out.yielded[j].rel) => i < j
        /\ NoLinks(out.tree) =>
            /\ \A i, j \in 1..Len(out.visited) : out.visited[i] = out.visited[j] => i = j
            /\ Visited \subseteq {x.rel : x \in out.tree}
            /\ ~WalkDone => Head(out.stack).todo # {}
            /\ WalkDone => Visited = {x.rel : x \in out.tree}

\* a finished walk in mode 'df' of a tree without links, a file two
\* directories down yielded third
C20_Witness ==
    /\ WalkDone
    /\ out.mode = {"d", "f"}
    /\ NoLinks(out.tree)
    /\ Len(out.yielded) >= 3
    /\ \E j \in 1..Len(out.yielded) :
            /\ Len(out.yielded[j].rel) = 2
            /\ out.yielded[j].val.role = "File"
            /\ out.yielded[1].rel = << "a" >>


(***************************************************************************)
(* The Stats object.  A file is what the disk holds at unicode(self._path): *)
(* its entity, and the permissions and owner of what a followed link leads  *)
(* to.  A link's own permissions and owner are fixed, since chmod and chown *)
(* follow links.  A stat result is [err, kind, perm, uid, gid].             *)
(***************************************************************************)
NameError == "NameError"

\* Python's None among the values of the properties, which are tuples
PyNone == << >>

Perms == {0, 1}

Ids == {0, 1}

Files == {[entity |-> e, perm |-> 0, uid |-> 0, gid |-> 0] : e \in Entities}

\* os.stat or os.lstat of the file, as Stats._stat chooses between them
StatCall(file, followlinks) ==
    LET s == Stats(file.entity, followlinks)
        own == ~followlinks /\ file.entity.kind = "link"
    IN  [err |-> s.err, kind |-> s.mode,
         perm |-> IF own THEN 1 ELSE file.perm,
         uid |-> IF own THEN 0 ELSE file.uid,
         gid |-> IF own THEN 0 ELSE file.gid]

\* self._cached = None
NoStat == [err |-> "unset", kind |-> "absent", perm |-> 0, uid |-> 0, gid |-> 0]

\* Stats._stat(self, force): [self, st, calls], the object after the call,
\* the stat result returned (its err set when the stat call raises) and the
\* number of stat calls made.  A call that raises leaves the cache alone.
Stats_stat(self, file, force) ==
    IF ~force /\ self.usecache /\ self.cached # NoStat
    THEN [self |-> self, st |-> self.cached, calls |-> 0]
    ELSE LET s == StatCall(file, self.followlinks)
         IN  [self |-> IF s.err = NoError THEN [self EXCEPT !.cached = s] ELSE self,
              st |-> s, calls |-> 1]

\* Stats.__init__(path, usecache, followlinks): [err, self, calls]
Stats_init(file, usecache, followlinks) ==
    LET self == [usecache |-> usecache, followlinks |-> followlinks, cached |-> NoStat]
        r == Stats_stat(self, file, FALSE)
    IN  IF usecache
        THEN [err |-> r.st.err, self |-> r.self, calls |-> r.calls]
        ELSE [err |-> NoError, self |-> self, calls |-> 0]

Props == {"isdir", "isfile", "islink", "mode", "owner", "size",
          "atime", "mtime", "amtime", "ctime"}

\* the value a property getter makes of the stat result s; the getter of
\* mode has no return statement, and the sizes and times are not modelled
PropValue(prop, s) ==
    CASE prop = "isdir" -> << s.kind = "dir" >>
      [] prop = "isfile" -> << s.kind = "file" >>
      [] prop = "islink" -> << s.kind = "link" >>
      [] prop = "mode" -> PyNone
      [] OTHER -> << prop >>

\* the getter of owner: (self._stat().st_uid, self._stat().st_gid)
Stats_owner(self, file) ==
    LET r1 == Stats_stat(self, file, FALSE)
        r2 == Stats_stat(r1.self, file, FALSE)
    IN  IF r1.st.err # NoError
        THEN [err |-> r1.st.err, self |-> r1.self, calls |-> r1.calls, val |-> PyNone]
        ELSE [err |-> r2.st.err, self |-> r2.self, calls |-> r1.calls + r2.calls,
              val |-> << r1.st.uid, r2.st.gid >>]

\* the getter of a property: [err, self, calls, val]
Stats_get(self, file, prop) ==
    IF prop = "owner" THEN Stats_owner(self, file)
    ELSE LET r == Stats_stat(self, file, FALSE)
         IN  [err |-> r.st.err, self |-> r.self, calls |-> r.calls,
              val |-> IF r.st.err = NoError THEN PropValue(prop, r.st) ELSE PyNone]

\* os.chmod and os.chown follow links and raise when nothing is there
CanChange(file) == file.entity.target # "absent"

\* the setter of mode: os.chmod, then self._stat(True); [err, self, file, calls]
Stats_set_mode(self, file, mode) ==
    IF ~CanChange(file) THEN [err |-> OSError, self |-> self, file |-> file, calls |-> 0]
    ELSE LET changed == [file EXCEPT !.perm = mode]
             r == Stats_stat(self, changed, TRUE)
         IN  [err |-> r.st.err, self |-> r.self, file |-> changed, calls |-> r.calls]

\* the setter of owner: os.chown, then self._stat(True)
Stats_set_owner(self, file, uid, gid) ==
    IF ~CanChange(file) THEN [err |-> OSError, self |-> self, file |-> file, calls |-> 0]
    ELSE LET changed == [file EXCEPT !.uid = uid, !.gid = gid]
             r == Stats_stat(self, changed, TRUE)
         IN  [err |-> r.st.err, self |-> r.self, file |-> changed, calls |-> r.calls]

\* the setter of amtime reads atime before it is bound
Stats_set_amtime(self, file) ==
    [err |-> NameError, self |-> self, file |-> file, calls |-> 0]

\* path.stat(usecache, followlinks), for the file the disk holds at the path
StatsNew(file, usecache, followlinks) ==
    \E r \in {Stats_init(file, usecache, followlinks)} :
        /\ r.err = NoError
        /\ out' = [op |-> "stats", did |-> "init", prop |-> "none", file |-> file,
                   stats |-> r.self, err |-> r.err, calls |-> r.calls,
                   total |-> r.calls, val |-> PyNone, set |-> FALSE]
        /\ UNCHANGED << os, p >>

StatsLive == out.op = "stats" /\ out.total < MaxCalls

\* one read of a property of the Stats object
StatsRead(prop) ==
    /\ StatsLive
    /\ \E r \in {Stats_get(out.stats, out.file, prop)} :
        out' = [out EXCEPT !.did = "read", !.prop = prop, !.stats = r.self,
                           !.err = r.err, !.calls = r.calls,
                           !.total = out.total + r.calls, !.val = r.val]
    /\ UNCHANGED << os, p >>

\* stats.mode = mode
StatsSetMode(mode) ==
    /\ StatsLive
    /\ \E r \in {Stats_set_mode(out.stats, out.file, mode)} :
        out' = [out EXCEPT !.did = "set", !.prop = "mode", !.stats = r.self,
                           !.file = r.file, !.err = r.err, !.calls = r.calls,
                           !.total = out.total + r.calls, !.val = PyNone,
                           !.set = out.set \/ r.err = NoError]
    /\ UNCHANGED << os, p >>

\* stats.owner = (uid, gid)
StatsSetOwner(uid, gid) ==
    /\ StatsLive
    /\ \E r \in {Stats_set_owner(out.stats, out.file, uid, gid)} :
        out' = [out EXCEPT !.did = "set", !.prop = "owner", !.stats = r.self,
                           !.file = r.file, !.err = r.err, !.calls = r.calls,
                           !.total = out.total + r.calls, !.val = PyNone,
                           !.set = out.set \/ r.err = NoError]
    /\ UNCHANGED << os, p >>

\* stats.amtime = times
StatsSetAmtime ==
    /\ StatsLive
    /\ \E r \in {Stats_set_amtime(out.stats, out.file)} :
        out' = [out EXCEPT !.did = "set", !.prop = "amtime", !.err = r.err,
                           !.calls = r.calls, !.val = PyNone]
    /\ UNCHANGED << os, p >>

NextStats ==
    \/ Idle /\ \E file \in Files, usecache \in BOOLEAN, followlinks \in BOOLEAN :
                    StatsNew(file, usecache, followlinks)
    \/ \E prop \in Props : StatsRead(prop)
    \/ \E mode \in Perms : StatsSetMode(mode)
    \/ \E uid \in Ids, gid \in Ids : StatsSetOwner(uid, gid)
    \/ StatsSetAmtime
    \/ Return

SpecStats == Init /\ [][NextStats]_vars

\* C21: a Stats object made with the cache makes one stat call when it is
\* made and none on a read of a property; made without the cache it makes
\* none when it is made and exactly one on each read; and after mode or
\* owner was set, a read of it returns what the disk now holds.
C21_StatsCaching ==
    out.op = "stats" =>
        /\ out.did = "init" => out.calls = (IF out.stats.usecache THEN 1 ELSE 0)
        /\ (out.did = "read" /\ out.stats.usecache) => out.calls = 0
        /\ (out.did = "read" /\ ~out.stats.usecache) => out.calls = 1
        /\ (out.did = "read" /\ out.set /\ out.err = NoError /\ out.prop = "mode") =>
                out.val = << StatCall(out.file, out.stats.followlinks).perm >>
        /\ (out.did = "read" /\ out.set /\ out.err = NoError /\ out.prop = "owner") =>
                out.val = << StatCall(out.file, out.stats.followlinks).uid,
                             StatCall(out.file, out.stats.followlinks).gid >>

\* the call counts of C21 apart from the getter of owner
C21_OneCallPerRead ==
    (out.op = "stats" /\ out.did = "read" /\ ~out.stats.usecache /\ out.prop # "owner")
        => out.calls = 1

\* the getter of owner of an object without the cache has made its calls
C21_OwnerRead ==
    /\ out.op = "stats"
    /\ out.did = "read"
    /\ out.prop = "owner"
    /\ ~out.stats.usecache
    /\ out.calls = 2


(***************************************************************************)
(* Repetition, and every operation of the algebra applied in any order to  *)
(* the value in the register.                                              *)
(***************************************************************************)
\* tuple.__mul__(members, n): n copies in a row, none when n is not positive
tuple_mul(members, n) ==
    [k \in 1..(IF n > 0 THEN n * Len(members) ELSE 0) |->
        members[((k - 1) % Len(members)) + 1]]

\* BasePath.__mul__(self, n)
mul(o, self, n) ==
    IF ~isrel(o, self) THEN Fail(ValueError)
    ELSE new(o, self.role, ArgList(tuple_mul(self.members, n)))

\* BasePath.__rmul__(self, n)
rmul(o, self, n) ==
    IF ~isrel(o, self) THEN Fail(ValueError)
    ELSE new(o, self.role, ArgList(tuple_mul(self.members, n)))

\* the counts a path is repeated by
Counts == (-1)..MaxRepeat

\* p * n
Mul(n) ==
    \E r \in {mul(os, p, n)} :
        /\ out' = [Blank EXCEPT !.op = "mul", !.self = p, !.h1 = n, !.res = r]
        /\ p' = Keep(r)
        /\ UNCHANGED os

\* n * p
Rmul(n) ==
    \E r \in {rmul(os, p, n)} :
        /\ out' = [Blank EXCEPT !.op = "rmul", !.self = p, !.h1 = n, !.res = r]
        /\ p' = Keep(r)
        /\ UNCHANGED os

NextAlg ==
    \/ Idle /\ \E role \in Roles, t \in OperandTexts(os) : New(role, t)
    \/ Idle /\ \E role \in Roles, root \in Roots(os) \cup {ForeignRoot(os)} :
                    NewRoot(role, root)
    \/ Idle /\ \E role \in Roles, items \in ElementLists(os) : NewList(role, items)
    \/ Idle /\ \E role \in Roles : Convert(role)
    \/ Idle /\ \E arg \in AddArgs(os) : Add(arg)
    \/ Idle /\ \E arg \in RaddArgs(os) : Radd(arg)
    \/ Idle /\ \E start \in Bounds, stop \in Bounds, step \in Steps :
                  GetItem(start, stop, step)
    \/ Idle /\ \E n \in Counts : Mul(n)
    \/ Idle /\ \E n \in Counts : Rmul(n)
    \/ Return

SpecAlg == Init /\ [][NextAlg]_vars

\* a path value is well formed: a root of the grammar only at index 0, and
\* every other member a string that is not empty, holds no separator and
\* no alternate separator and is not '.'
WellFormed(o, v) ==
    \A i \in 1..Len(v.members) :
        LET m == v.members[i]
        IN  IF IsStr(m)
            THEN /\ m.a # EmptyText
                 /\ ~contains(m.a, sep(o))
                 /\ ~(HasAltsep(o) /\ contains(m.a, altsep))
                 /\ m.a # curdir
            ELSE IsOSRoot(o, m) /\ i = 1

\* C22: whatever sequence of constructions (from a text, an element list,
\* a root, a path value), role conversions, concatenations on either side,
\* slices and repetitions is applied, every path value an operation
\* returns, and the value kept in the register, is well formed.
C22_WellFormed ==
    /\ WellFormed(os, p)
    /\ (~Idle /\ out.res.err = NoError) => WellFormed(os, out.res.val)

\* the reversed slice of a rooted path of two members, whose tuple would
\* end with the root, has failed
C22_Witness ==
    /\ out.op = "slice"
    /\ Len(out.self.members) = 2
    /\ IsOSRoot(os, out.self.members[1])
    /\ out.start = Absent /\ out.stop = Absent /\ out.step = Given(-1)
    /\ out.res.err # NoError


(***************************************************************************)
(* Instances.  An instance is a path value with its _cached_str attribute  *)
(* (NoStr for None, else the one-item tuple of the string) and the number  *)
(* of times _build_str has run on it.                                      *)
(***************************************************************************)
NoStr == << >>

Instance(v) == [role |-> v.role, members |-> v.members, cached_str |-> NoStr, builds |-> 0]

\* BasePath.__init__(self, arg)
BasePath_init(x) == [x EXCEPT !.cached_str = NoStr]

\* BasePath.__unicode__ and __str__: the instance after the call
BasePath_unicode(o, x) ==
    IF x.cached_str = NoStr
    THEN [x EXCEPT !.cached_str = << build_str(o, PathValue(x.role, x.members)) >>,
                   !.builds = @ + 1]
    ELSE x

\* cls(x) as it leaves x: __new__ returns x itself when x is of class cls
\* exactly, and type.__call__ then runs __init__ on what __new__ returned;
\* for another class a new instance is made from the tuple
Construct(cls, x) == IF x.role = cls THEN BasePath_init(x) ELSE x

\* cls.__getnorm(x) as it leaves x: cls._Path(x), then norm on the result,
\* which renders it
getnorm_arg(o, x) ==
    IF x.role = "Path" THEN BasePath_unicode(o, Construct("Path", x)) ELSE x

\* self.norm(False, False, False) as it leaves self
norm_self(o, x) == BasePath_unicode(o, x)

\* the class of role r2 is a proper subclass of the class of role r1, so
\* that its reflected comparison method is tried first
IsSubclass(r2, r1) == r1 = "Path" /\ r2 # "Path"

\* x == y, x < y, x > y for another instance y, as it leaves x: the
\* comparison is y's reflected method when y's class derives from x's
Compare_left(o, x, y) ==
    IF IsSubclass(y.role, x.role)
    THEN IF norm(o, y).err # NoError THEN x ELSE getnorm_arg(o, x)
    ELSE norm_self(o, x)

\* y == x for another instance y, as it leaves x
Compare_right(o, x, y) ==
    IF IsSubclass(x.role, y.role) THEN norm_self(o, x)
    ELSE IF norm(o, y).err # NoError THEN x
    ELSE getnorm_arg(o, x)

\* x == x as it leaves x
Compare_self(o, x) ==
    IF norm(o, PathValue(x.role, x.members)).err # NoError THEN norm_self(o, x)
    ELSE getnorm_arg(o, norm_self(o, x))

\* the other operands of comparisons
Others(o) ==
    {new(o, role, ArgStr(t)).val :
        role \in Roles,
        t \in {<< "a" >>} \cup (IF o = "nt" THEN {<< DOT, SLASH, DOT, COLON >>} ELSE {})}

\* x = role(t) for a text that parses
Make(role, t) ==
    \E v \in {new(os, role, ArgStr(t))} :
        /\ v.err = NoError
        /\ out' = [op |-> "instance", did |-> "new", inst |-> Instance(v.val),
                   ret |-> EmptyText]
        /\ UNCHANGED << os, p >>

InstLive == out.op = "instance" /\ out.inst.builds < MaxBuilds

\* str(x) or unicode(x)
Render ==
    /\ InstLive
    /\ \E x \in {BasePath_unicode(os, out.inst)} :
        out' = [out EXCEPT !.did = "render", !.inst = x, !.ret = x.cached_str[1]]
    /\ UNCHANGED << os, p >>

\* cls(x) for a class of the grammar
Reconstruct_inst(cls) ==
    /\ InstLive
    /\ out' = [out EXCEPT !.did = "construct", !.inst = Construct(cls, out.inst)]
    /\ UNCHANGED << os, p >>

\* a comparison with x on the given side, or with x on both
CompareInst(side, y) ==
    /\ InstLive
    /\ out' = [out EXCEPT !.did = "compare",
                          !.inst = CASE side = "left" -> Compare_left(os, out.inst, y)
                                     [] side = "right" -> Compare_right(os, out.inst, y)
                                     [] OTHER -> Compare_self(os, out.inst)]
    /\ UNCHANGED << os, p >>

\* x + y, y + x, x[i:j:k], x * n: the result is made from an iterator over
\* x or from a tuple, and x is neither rendered nor constructed again
UseInst ==
    /\ InstLive
    /\ out.did # "use"
    /\ out' = [out EXCEPT !.did = "use"]
    /\ UNCHANGED << os, p >>

NextInst ==
    \/ Idle /\ \E role \in Roles, t \in OperandTexts(os) : Make(role, t)
    \/ Render
    \/ \E cls \in Roles : Reconstruct_inst(cls)
    \/ \E side \in {"left", "right", "self"}, y \in Others(os) : CompareInst(side, y)
    \/ UseInst
    \/ Return

SpecInst == Init /\ [][NextInst]_vars

\* C23: whatever is done with an instance, its string is built at most
\* once; a render returns the string a fresh build of its members gives,
\* and the cached string, once set, is that string.
C23_Memoized ==
    out.op = "instance" =>
        LET fresh == build_str(os, PathValue(out.inst.role, out.inst.members))
        IN  /\ out.inst.builds <= 1
            /\ out.inst.cached_str # NoStr => out.inst.cached_str = << fresh >>
            /\ out.did = "render" => out.ret = fresh

\* the part of C23 about the value of the string
C23_CachedIsFresh ==
    out.op = "instance" =>
        LET fresh == build_str(os, PathValue(out.inst.role, out.inst.members))
        IN  /\ out.inst.cached_str # NoStr => out.inst.cached_str = << fresh >>
            /\ out.did = "render" => out.ret = fresh

\* an instance whose string was built a second time
C23_BuiltTwice ==
    /\ out.op = "instance"
    /\ out.did = "render"
    /\ out.inst.builds = 2


(***************************************************************************)
(* Splitting a path at an index and joining the two slices again.          *)
(***************************************************************************)
\* p = role(t), p[:k] + p[k:] for an index k inside p
SplitJoin(role, t, k) ==
    \E v \in {new(os, role, ArgStr(t))} :
        /\ v.err = NoError
        /\ 0 < k /\ k < Len(v.val.members)
        /\ \E left \in {getitem(os, v.val, Absent, Given(k), Absent)},
              right \in {getitem(os, v.val, Given(k), Absent, Absent)} :
                out' = [op |-> "split", self |-> v.val, k |-> k,
                        left |-> left, right |-> right,
                        res |-> IF left.err = NoError /\ right.err = NoError
                                THEN add(os, left.val, ArgPath(right.val))
                                ELSE NoResult,
                        eq |-> NoTruth]
        /\ UNCHANGED << os, p >>

\* r = role(t), Path() + r and (Path() + r) == r
AddToEmpty(role, t) ==
    \E v \in {new(os, role, ArgStr(t))} :
        /\ v.err = NoError
        /\ \E r \in {add(os, PathValue("Path", << >>), ArgPath(v.val))} :
                out' = [op |-> "identity", self |-> v.val, k |-> 0,
                        left |-> NoResult, right |-> NoResult, res |-> r,
                        eq |-> IF r.err = NoError THEN eq(os, r.val, v.val)
                               ELSE NoTruth]
        /\ UNCHANGED << os, p >>

NextSplit ==
    \/ Idle /\ \E role \in Roles, t \in TransformTexts(os), k \in 1..MaxSegs :
                    SplitJoin(role, t, k)
    \/ Idle /\ \E role \in Roles, t \in TransformTexts(os) : AddToEmpty(role, t)
    \/ Return

SpecSplit == Init /\ [][NextSplit]_vars

\* the first half of C24: p[:k] + p[k:] is made, with the members and the
\* role of p
C24_Split ==
    out.op = "split" =>
        /\ out.left.err = NoError
        /\ out.right.err = NoError
        /\ out.res.err = NoError
        /\ out.res.val.members = out.self.members
        /\ out.res.val.role = out.self.role

\* C24: for a path p of any role and an index k inside it, p[:k] + p[k:] is
\* made and has the members and the role of p; and for a relative path r,
\* Path() + r is made, has the members of r and compares equal to r.
C24_SplitRejoin ==
    /\ C24_Split
    /\ (out.op = "identity" /\ isrel(os, out.self)) =>
            /\ out.res.err = NoError
            /\ out.res.val.members = out.self.members
            /\ out.eq.err = NoError
            /\ out.eq.val

\* a file under a root and a directory, split after the root
C24_SplitFile ==
    /\ out.op = "split"
    /\ out.self.role = "File"
    /\ Len(out.self.members) = 3
    /\ IsOSRoot(os, out.self.members[1])
    /\ out.k = 1
    /\ out.left.val.role = "Dir"
    /\ out.res.val = out.self

====
